---- MODULE Spec2Model ----
(***************************************************************************)
(* Model of backend/neural_network.py: the bag-of-words SimpleTokenizer,   *)
(* the three-layer DescriptionQualityNetwork and the DescriptionScorer     *)
(* that owns them, with persistence to a model directory.                  *)
(*                                                                         *)
(* Representation.                                                         *)
(*  - A text is a sequence of one-character strings.                       *)
(*  - A Python dict is an insertion-ordered sequence of <<key, value>>     *)
(*    pairs with distinct keys (iteration order is observable: sorted() in *)
(*    fit is stable, and load inverts word_to_idx item by item).           *)
(*  - A float is a fixed-point integer in units of 1/FP.                   *)
(*  - A numpy 2-d array is a sequence of rows.                             *)
(*  - The shipped sizes (vocab 200, hidden 64/32, 2000 epochs, 54 training *)
(*    examples, the keyword lists) are scaled down; the scaled values are  *)
(*    the bounds below.                                                    *)
(***************************************************************************)
EXTENDS Integers, Sequences, FiniteSets, TLC

VARIABLES tok, model, is_trained, nets, disk, th, gen, scorer_instance,
          CUSTOM_DOCUMENTS, KNOWLEDGE_DOCUMENTS, hist

\* the module globals of knowledge_base.py
knowledge_base == <<CUSTOM_DOCUMENTS, KNOWLEDGE_DOCUMENTS>>

vars == <<tok, model, is_trained, nets, disk, th, gen, scorer_instance, knowledge_base, hist>>

(***************************************************************************)
(* Bounds of the model.                                                    *)
(***************************************************************************)
FP == 1000          \* fixed-point resolution: 1.0 is FP
VocabSize == 3      \* DescriptionScorer's SimpleTokenizer(vocab_size=200), scaled
Hidden1 == 2        \* hidden1_size=64, scaled
Hidden2 == 2        \* hidden2_size=32, scaled
Epochs == 2         \* train(epochs=2000), scaled
MaxVocab == 2       \* largest vocab_size of a stand-alone tokenizer
MaxFits == 2        \* fit calls on a stand-alone tokenizer
MaxGen == 2         \* scorer instances constructed in one run
MaxCalls == 3       \* calls made on one scorer instance by one thread


(***************************************************************************)
(* Generic helpers.                                                        *)
(***************************************************************************)
Min(a, b) == IF a < b THEN a ELSE b
Max(a, b) == IF a > b THEN a ELSE b

RECURSIVE SumSeq(_)
SumSeq(s) == IF s = <<>> THEN 0 ELSE Head(s) + SumSeq(Tail(s))

Range(s) == {s[i] : i \in DOMAIN s}

\* a function on 1..n as a tuple of values
AsTuple(f) == f \o <<>>

\* Python dict operations on an ordered sequence of <<key, value>> pairs
DictHas(d, k) == \E i \in DOMAIN d : d[i][1] = k
DictGet(d, k, default) ==
    IF DictHas(d, k) THEN d[CHOOSE i \in DOMAIN d : d[i][1] = k][2] ELSE default
DictSet(d, k, v) ==
    IF DictHas(d, k)
    THEN AsTuple([i \in DOMAIN d |-> IF d[i][1] = k THEN <<k, v>> ELSE d[i]])
    ELSE Append(d, <<k, v>>)
\* dict equality in Python ignores insertion order
AsMap(d) == Range(d)

(***************************************************************************)
(* Characters.  The alphabet of the model: lower-case letters, one         *)
(* upper-case letter, the blank and two punctuation marks.                 *)
(***************************************************************************)
LowerLetters == {"a", "b", "c", "d", "o", "u", "v", "x"}
UpperLetters == {"V"}
Blank == " "

ToLower(ch) == IF ch = "V" THEN "v" ELSE ch
IsAlnum(ch) == ch \in LowerLetters \cup UpperLetters
IsSpace(ch) == ch = Blank

\* the loop of _clean_text: every character that is neither alphanumeric
\* nor white space becomes a blank
CleanChar(ch) == IF IsAlnum(ch) \/ IsSpace(ch) THEN ch ELSE Blank

\* str.split(): maximal runs of non-blank characters
RECURSIVE SplitFrom(_, _, _)
SplitFrom(s, cur, acc) ==
    IF s = <<>>
    THEN IF cur = <<>> THEN acc ELSE Append(acc, cur)
    ELSE IF IsSpace(Head(s))
         THEN SplitFrom(Tail(s), <<>>, IF cur = <<>> THEN acc ELSE Append(acc, cur))
         ELSE SplitFrom(Tail(s), Append(cur, Head(s)), acc)

CleanText(text) ==
    SplitFrom(AsTuple([i \in DOMAIN text |-> CleanChar(ToLower(text[i]))]), <<>>, <<>>)

(***************************************************************************)
(* SimpleTokenizer                                                         *)
(***************************************************************************)
NewTokenizer(vs) ==
    [vocab_size |-> vs, word_to_idx |-> <<>>, idx_to_word |-> <<>>, word_counts |-> <<>>]

RECURSIVE CountWords(_, _)
CountWords(counts, words) ==
    IF words = <<>> THEN counts
    ELSE CountWords(DictSet(counts, Head(words), DictGet(counts, Head(words), 0) + 1),
                    Tail(words))

RECURSIVE CountTexts(_, _)
CountTexts(counts, texts) ==
    IF texts = <<>> THEN counts
    ELSE CountTexts(CountWords(counts, CleanText(Head(texts))), Tail(texts))

\* a sort by count that puts the later of two items of equal count first
SortedWordsTiesReversed(counts) ==
    LET n == Len(counts)
        rank(i) == Cardinality({j \in 1..n : counts[j][2] > counts[i][2]})
                   + Cardinality({j \in 1..n : j > i /\ counts[j][2] = counts[i][2]})
    IN AsTuple([r \in 1..n |-> counts[CHOOSE i \in 1..n : rank(i) = r - 1]])

\* sorted(items, key=count, reverse=True): a stable sort, so items of equal
\* count keep their order in the dict
SortedWords(counts) ==
    LET n == Len(counts)
        rank(i) == Cardinality({j \in 1..n : counts[j][2] > counts[i][2]})
                   + Cardinality({j \in 1..n : j < i /\ counts[j][2] = counts[i][2]})
    IN AsTuple([r \in 1..n |-> counts[CHOOSE i \in 1..n : rank(i) = r - 1]])

RECURSIVE AssignSlots(_, _, _)
AssignSlots(t, top, idx) ==
    IF top = <<>> THEN t
    ELSE AssignSlots([t EXCEPT !.word_to_idx = DictSet(@, Head(top)[1], idx),
                               !.idx_to_word = DictSet(@, idx, Head(top)[1])],
                     Tail(top), idx + 1)

\* a fit that keeps one word more than vocab_size
FitOneMore(t, texts) ==
    LET counted == [t EXCEPT !.word_counts = CountTexts(@, texts)]
        sorted == SortedWords(counted.word_counts)
    IN AssignSlots(counted, SubSeq(sorted, 1, Min(Len(sorted), t.vocab_size + 1)), 0)

Fit(t, texts) ==
    LET counted == [t EXCEPT !.word_counts = CountTexts(@, texts)]
        sorted == SortedWords(counted.word_counts)
    IN AssignSlots(counted, SubSeq(sorted, 1, Min(Len(sorted), t.vocab_size)), 0)

\* the counting loop of transform; ok = FALSE is numpy's IndexError for a
\* slot outside the vector
RECURSIVE BowCounts(_, _, _)
BowCounts(t, words, vector) ==
    IF words = <<>> THEN [ok |-> TRUE, v |-> vector]
    ELSE IF DictHas(t.word_to_idx, Head(words))
         THEN LET idx == DictGet(t.word_to_idx, Head(words), 0)
              IN IF idx >= Len(vector) THEN [ok |-> FALSE, v |-> <<>>]
                 ELSE BowCounts(t, Tail(words), [vector EXCEPT ![idx + 1] = @ + 1])
         ELSE BowCounts(t, Tail(words), vector)

\* a transform that divides by the largest count
RECURSIVE MaxSeq(_)
MaxSeq(v) == IF v = <<>> THEN 0 ELSE Max(Head(v), MaxSeq(Tail(v)))
NormalizeByMax(vector) ==
    IF SumSeq(vector) > 0
    THEN AsTuple([i \in DOMAIN vector |-> (vector[i] * FP) \div MaxSeq(vector)])
    ELSE vector

\* a transform that leaves the counts as they are
NormalizeSkipped(vector) == vector

Normalize(vector) ==
    IF SumSeq(vector) > 0
    THEN AsTuple([i \in DOMAIN vector |-> (vector[i] * FP) \div SumSeq(vector)])
    ELSE vector

LengthScale == 200
WordCountScale == 30
ComplexWordLen == 6
ActionWords == {<<"v">>}      \* 'validate', 'check', 'verify', 'process', 'handle', scaled
UserWords == {<<"u">>}        \* 'user', 'customer', 'client', 'admin', scaled
DataWords == {<<"d">>}        \* 'database', 'store', 'save', 'retrieve', 'query', scaled
OutputWords == {<<"o">>}      \* 'display', 'show', 'render', 'output', 'present', scaled

Indicator(b) == IF b THEN FP ELSE 0

ExtractFeatures(text) ==
    LET words == CleanText(text)
        n == Len(words)
        complex == Cardinality({i \in 1..n : Len(words[i]) > ComplexWordLen})
    IN << (Len(text) * FP) \div LengthScale,
          (n * FP) \div WordCountScale,
          (Cardinality(Range(words)) * FP) \div Max(n, 1),
          (complex * FP) \div Max(n, 1),
          Indicator(Range(words) \cap ActionWords # {}),
          Indicator(Range(words) \cap UserWords # {}),
          Indicator(Range(words) \cap DataWords # {}),
          Indicator(Range(words) \cap OutputWords # {}) >>

\* a transform that returns the bag of words without the text features
TransformBowOnly(t, text) ==
    LET bow == BowCounts(t, CleanText(text), AsTuple([i \in 1..t.vocab_size |-> 0]))
    IN IF bow.ok THEN [ok |-> TRUE, v |-> Normalize(bow.v)] ELSE bow

Transform(t, text) ==
    LET counts == BowCounts(t, CleanText(text), AsTuple([i \in 1..t.vocab_size |-> 0]))
    IN IF counts.ok
       THEN [ok |-> TRUE, v |-> Normalize(counts.v) \o ExtractFeatures(text)]
       ELSE counts

InputSize(t) == t.vocab_size + 8

(***************************************************************************)
(* numpy arrays                                                            *)
(***************************************************************************)
Rows(M) == Len(M)
Cols(M) == IF M = <<>> THEN 0 ELSE Len(M[1])

\* the r x c array with entries F(i, j)
Arr(r, c, F(_, _)) == AsTuple([i \in 1..r |-> AsTuple([j \in 1..c |-> F(i, j)])])

Zeros(r, c) == LET F(i, j) == 0 IN Arr(r, c, F)

DotOK(A, B) == Cols(A) = Rows(B)
Dot(A, B) ==
    LET F(i, j) == SumSeq(AsTuple([k \in 1..Cols(A) |-> A[i][k] * B[k][j]])) \div FP
    IN Arr(Rows(A), Cols(B), F)

Transpose(M) == LET F(j, i) == M[i][j] IN Arr(Cols(M), Rows(M), F)

\* broadcasting of a bias b against an r x c array
BroadcastOK(b, r, c) == Rows(b) \in {1, r} /\ Cols(b) \in {1, c}
AddBias(Z, b) ==
    LET F(i, j) == Z[i][j] + b[IF Rows(b) = 1 THEN 1 ELSE i][IF Cols(b) = 1 THEN 1 ELSE j]
    IN Arr(Rows(Z), Cols(Z), F)

SameShape(A, B) == Rows(A) = Rows(B) /\ Cols(A) = Cols(B)
MapArr(Op(_), M) == LET F(i, j) == Op(M[i][j]) IN Arr(Rows(M), Cols(M), F)
Zip(Op(_, _), A, B) == LET F(i, j) == Op(A[i][j], B[i][j]) IN Arr(Rows(A), Cols(A), F)

\* np.sum(M, axis=0, keepdims=True)
SumRows(M) == LET F(i, j) == SumSeq(AsTuple([k \in 1..Rows(M) |-> M[k][j]])) IN Arr(1, Cols(M), F)

(***************************************************************************)
(* Activation functions                                                    *)
(***************************************************************************)
ReluScalar(x) == IF x > 0 THEN x ELSE 0
relu(M) == MapArr(ReluScalar, M)

ReluDerivScalar(x) == IF x > 0 THEN 1 ELSE 0
relu_derivative(M) == MapArr(ReluDerivScalar, M)

SigmoidClip == 500
\* 1000 / (1 + e^-k) for k = 0 .. 8, rounded
SigmoidKnots == <<500, 731, 881, 953, 982, 993, 998, 999, 1000>>

SigmoidPos(z) ==
    LET k == z \div FP
    IN IF k >= Len(SigmoidKnots) - 1 THEN FP
       ELSE LET lo == SigmoidKnots[k + 1]
                hi == SigmoidKnots[k + 2]
            IN (lo * FP + (hi - lo) * (z - k * FP)) \div 1000

\* an output unit that does not squash its input
OutputUnsquashed(x) == IF x > 0 THEN x ELSE 0

SigmoidScalar(x) ==
    LET z == Max(-SigmoidClip * FP, Min(SigmoidClip * FP, x))
    IN IF z >= 0 THEN SigmoidPos(z) ELSE FP - SigmoidPos(-z)

sigmoid(M) == MapArr(SigmoidScalar, M)

(***************************************************************************)
(* DescriptionQualityNetwork                                               *)
(***************************************************************************)
Seeds == {1, 2}     \* states of numpy's global generator when a network is built

\* the integer square root, by bisection
RECURSIVE Bisect(_, _, _)
Bisect(n, lo, hi) ==
    IF hi - lo <= 1 THEN lo
    ELSE LET mid == (lo + hi) \div 2
         IN IF mid * mid <= n THEN Bisect(n, mid, hi) ELSE Bisect(n, lo, mid)
ISqrt(n) == Bisect(n, 0, 2 * FP)

\* np.random.randn(r, c): a standard-normal sample, here a fixed function of
\* the generator state
Randn(seed, layer, r, c) ==
    LET F(i, j) == (((seed * 3 + layer * 7 + i + j * 2) % 5) - 1) * (FP \div 2)
    IN Arr(r, c, F)

\* np.random.randn(fan_in, fan_out) * np.sqrt(2.0 / fan_in)
HeInit(seed, layer, fan_in, fan_out) ==
    LET scale == ISqrt((2 * FP * FP) \div fan_in)
        R == Randn(seed, layer, fan_in, fan_out)
        F(i, j) == (R[i][j] * scale) \div FP
    IN Arr(fan_in, fan_out, F)

EmptyCache == [Z1 |-> <<>>, A1 |-> <<>>, Z2 |-> <<>>, A2 |-> <<>>, Z3 |-> <<>>, A3 |-> <<>>]

NewNetwork(input_size, seed) ==
    [input_size |-> input_size,
     W1 |-> HeInit(seed, 1, input_size, Hidden1), b1 |-> Zeros(1, Hidden1),
     W2 |-> HeInit(seed, 2, Hidden1, Hidden2),    b2 |-> Zeros(1, Hidden2),
     W3 |-> HeInit(seed, 3, Hidden2, 1),          b3 |-> Zeros(1, 1),
     cache |-> EmptyCache]

\* The three layers of forward.  Each reads the network's parameters and its
\* cache and writes the cache; ok = FALSE is numpy's ValueError for operands
\* whose shapes do not match, raised before the cache entry is written.
Layer1OK(n, X) == DotOK(X, n.W1) /\ BroadcastOK(n.b1, Rows(X), Cols(n.W1))
Layer1(n, X) ==
    LET Z == AddBias(Dot(X, n.W1), n.b1)
    IN [n EXCEPT !.cache.Z1 = Z, !.cache.A1 = relu(Z)]

Layer2OK(n) == DotOK(n.cache.A1, n.W2) /\ BroadcastOK(n.b2, Rows(n.cache.A1), Cols(n.W2))
Layer2(n) ==
    LET Z == AddBias(Dot(n.cache.A1, n.W2), n.b2)
    IN [n EXCEPT !.cache.Z2 = Z, !.cache.A2 = relu(Z)]

Layer3OK(n) == DotOK(n.cache.A2, n.W3) /\ BroadcastOK(n.b3, Rows(n.cache.A2), Cols(n.W3))
Layer3(n) ==
    LET Z == AddBias(Dot(n.cache.A2, n.W3), n.b3)
    IN [n EXCEPT !.cache.Z3 = Z, !.cache.A3 = sigmoid(Z)]

\* forward run without interruption: the network after it and the value returned
Forward(n, X) ==
    IF ~Layer1OK(n, X) THEN [ok |-> FALSE, net |-> n, out |-> <<>>]
    ELSE LET n1 == Layer1(n, X)
         IN IF ~Layer2OK(n1) THEN [ok |-> FALSE, net |-> n1, out |-> <<>>]
            ELSE LET n2 == Layer2(n1)
                 IN IF ~Layer3OK(n2) THEN [ok |-> FALSE, net |-> n2, out |-> <<>>]
                    ELSE LET n3 == Layer3(n2)
                         IN [ok |-> TRUE, net |-> n3, out |-> n3.cache.A3]

LearningRate == 50     \* learning_rate=0.05

DivBy(M, m) == LET F(i, j) == M[i][j] \div m IN Arr(Rows(M), Cols(M), F)
Minus(a, b) == a - b
Times(a, b) == a * b
Step(W, dW, lr) == LET F(i, j) == W[i][j] - (lr * dW[i][j]) \div FP IN Arr(Rows(W), Cols(W), F)

\* shapes backward needs, given the cache of a forward pass on X
BackwardOK(n, X, y) ==
    /\ SameShape(n.cache.A3, y)
    /\ Rows(n.cache.A2) = Rows(y) /\ SameShape(n.W3, Zeros(Cols(n.cache.A2), Cols(y)))
    /\ SameShape(n.b3, Zeros(1, Cols(y)))
    /\ SameShape(n.cache.Z2, Zeros(Rows(y), Rows(n.W3)))
    /\ Rows(n.cache.A1) = Rows(y) /\ SameShape(n.W2, Zeros(Cols(n.cache.A1), Cols(n.cache.Z2)))
    /\ SameShape(n.b2, Zeros(1, Cols(n.cache.Z2)))
    /\ SameShape(n.cache.Z1, Zeros(Rows(y), Rows(n.W2)))
    /\ Rows(X) = Rows(y) /\ SameShape(n.W1, Zeros(Cols(X), Cols(n.cache.Z1)))
    /\ SameShape(n.b1, Zeros(1, Cols(n.cache.Z1)))

Backward(n, X, y, lr) ==
    LET m == Rows(X)
        dZ3 == Zip(Minus, n.cache.A3, y)
        dW3 == DivBy(Dot(Transpose(n.cache.A2), dZ3), m)
        db3 == DivBy(SumRows(dZ3), m)
        dA2 == Dot(dZ3, Transpose(n.W3))
        dZ2 == Zip(Times, dA2, relu_derivative(n.cache.Z2))
        dW2 == DivBy(Dot(Transpose(n.cache.A1), dZ2), m)
        db2 == DivBy(SumRows(dZ2), m)
        dA1 == Dot(dZ2, Transpose(n.W2))
        dZ1 == Zip(Times, dA1, relu_derivative(n.cache.Z1))
        dW1 == DivBy(Dot(Transpose(X), dZ1), m)
        db1 == DivBy(SumRows(dZ1), m)
    IN [n EXCEPT !.W3 = Step(@, dW3, lr), !.b3 = Step(@, db3, lr),
                 !.W2 = Step(@, dW2, lr), !.b2 = Step(@, db2, lr),
                 !.W1 = Step(@, dW1, lr), !.b1 = Step(@, db1, lr)]

\* DescriptionQualityNetwork.train: epochs times forward, loss, backward on
\* the whole of X; ok = FALSE when a pass raises
RECURSIVE NetTrain(_, _, _, _, _)
NetTrain(n, X, y, epochs, lr) ==
    IF epochs = 0 THEN [ok |-> TRUE, net |-> n]
    ELSE LET f == Forward(n, X)
         IN IF ~f.ok THEN [ok |-> FALSE, net |-> f.net]
            ELSE IF ~BackwardOK(f.net, X, y) THEN [ok |-> FALSE, net |-> f.net]
                 ELSE NetTrain(Backward(f.net, X, y, lr), X, y, epochs - 1, lr)

Params(n) == <<n.W1, n.b1, n.W2, n.b2, n.W3, n.b3>>

\* -1000 ln(p) at p = 0.1 k for k = 0 .. 10, rounded; at p = 0 the value for
\* epsilon = 1e-15, to which compute_loss clips
NegLnKnots == <<34539, 2303, 1609, 1204, 916, 693, 511, 357, 223, 105, 0>>

NegLn(p) ==
    LET q == Max(0, Min(FP, p))
        k == (q * 10) \div FP
    IN IF k >= Len(NegLnKnots) - 1 THEN 0
       ELSE LET lo == NegLnKnots[k + 1]
                hi == NegLnKnots[k + 2]
            IN (lo * FP + (hi - lo) * (q * 10 - k * FP)) \div 1000

\* binary cross-entropy: -mean(y log p + (1 - y) log(1 - p))
CrossEntropy(p, y) == (y * NegLn(p) + (FP - y) * NegLn(FP - p)) \div FP
ComputeLoss(y_pred, y_true) ==
    LET E == Zip(CrossEntropy, y_pred, y_true)
    IN SumSeq(AsTuple([i \in 1..Rows(E) |-> SumSeq(E[i])])) \div (Rows(E) * Cols(E))

(***************************************************************************)
(* Training data and the inputs of the model                               *)
(***************************************************************************)
\* TRAINING_DATA, scaled to three examples: a one-word low score, a two-word
\* low score and a punctuated, capitalised high score.  As in the shipped
\* list, the corpus has no more distinct words than the scorer's vocab_size.
TRAINING_DATA ==
    << << <<"d">>, (10 * FP) \div 100 >>,
       << <<"u", " ", "d">>, (25 * FP) \div 100 >>,
       << <<"V", " ", "u", ",", " ", "d">>, (80 * FP) \div 100 >> >>

TrainingTexts == AsTuple([i \in DOMAIN TRAINING_DATA |-> TRAINING_DATA[i][1]])
TrainingScores == AsTuple([i \in DOMAIN TRAINING_DATA |-> <<TRAINING_DATA[i][2]>>])

\* descriptions passed to score
Descriptions == { <<"x", " ", "u">>, <<"V", "!">> }
\* description lists passed to score_batch
Batches == { << <<"V", "!">>, <<"x", " ", "u">> >>, << >> }

\* The nodes of a request to /api/score-descriptions: of type notes or not,
\* with a description, with an empty one or with none
MaxNodes == 2
NodeKinds ==
    { [type |-> ty, has_description |-> h, description |-> d] :
        ty \in {"notes", "process"}, h \in {TRUE}, d \in {<<>>, <<"V", "!">>} }
    \cup { [type |-> ty, has_description |-> FALSE, description |-> <<>>] :
             ty \in {"notes", "process"} }
WithId(k, i) ==
    [id |-> i, type |-> k.type, has_description |-> k.has_description,
     description |-> k.description]
Requests ==
    UNION { { AsTuple([i \in 1..n |-> WithId(f[i], i)]) : f \in [1..n -> NodeKinds] } :
              n \in 0..MaxNodes }

ObjIds == {1, 2, 3}          \* addresses of network objects
SeqThreads == {1}
ConcThreads == {1, 2}

(***************************************************************************)
(* The result of score                                                     *)
(***************************************************************************)
PoorBelow == 35
NeedsWorkBelow == 50
OkayBelow == 65
GoodBelow == 80

\* Python's round(): to the nearest, ties to even
RoundHalfEven(num, den) ==
    LET q == num \div den
        r == num % den
    IN IF 2 * r < den THEN q
       ELSE IF 2 * r > den THEN q + 1
       ELSE IF q % 2 = 0 THEN q ELSE q + 1

Below(s, hundredths) == s * 100 < hundredths * FP

Feedback(s) ==
    IF Below(s, PoorBelow) THEN "Needs much more detail."
    ELSE IF Below(s, NeedsWorkBelow) THEN "Too brief."
    ELSE IF Below(s, OkayBelow) THEN "Okay, but could be more specific."
    ELSE IF Below(s, GoodBelow) THEN "Good description with clear intent."
    ELSE "Excellent!"

\* labels whose boundaries belong to the lower bucket
QualityBoundaryLow(s) ==
    IF s * 100 <= PoorBelow * FP THEN "poor"
    ELSE IF s * 100 <= NeedsWorkBelow * FP THEN "needs_work"
    ELSE IF s * 100 <= OkayBelow * FP THEN "okay"
    ELSE IF s * 100 <= GoodBelow * FP THEN "good"
    ELSE "excellent"

Quality(s) ==
    IF Below(s, PoorBelow) THEN "poor"
    ELSE IF Below(s, NeedsWorkBelow) THEN "needs_work"
    ELSE IF Below(s, OkayBelow) THEN "okay"
    ELSE IF Below(s, GoodBelow) THEN "good"
    ELSE "excellent"

\* score is in hundredths, percentage in percent
ScoreResult(s) ==
    [score |-> RoundHalfEven(s * 100, FP),
     percentage |-> RoundHalfEven(s * 100, FP),
     feedback |-> Feedback(s),
     quality |-> Quality(s)]

\* main.py, score_descriptions: the result given to a node without description
MissingResult ==
    [score |-> 0, percentage |-> 0, feedback |-> "No description provided.",
     quality |-> "missing"]

\* {"node_id": ..., "node_type": ..., "description": ..., **score_result}
NodeResult(node, description, res) ==
    [node_id |-> node.id, node_type |-> node.type, description |-> description,
     score |-> res.score, percentage |-> res.percentage,
     feedback |-> res.feedback, quality |-> res.quality]

\* node.description or ""
DescriptionOrEmpty(node) == IF node.has_description THEN node.description ELSE <<>>

(***************************************************************************)
(* The model directory: tokenizer.json and weights.npz                     *)
(***************************************************************************)
NoFile == [kind |-> "absent"]
Garbage == [kind |-> "corrupt"]
ParamNames == <<"W1", "b1", "W2", "b2", "W3", "b3">>

\* np.savez(filepath, W1=..., b1=..., W2=..., b2=..., W3=..., b3=...)
NpzOf(n) ==
    [kind |-> "npz", names |-> Range(ParamNames),
     W1 |-> n.W1, b1 |-> n.b1, W2 |-> n.W2, b2 |-> n.b2, W3 |-> n.W3, b3 |-> n.b3]

\* json.dump({"word_to_idx": ..., "vocab_size": ...}, f)
TokJsonOf(t) ==
    [kind |-> "json", keys |-> {"word_to_idx", "vocab_size"},
     word_to_idx |-> t.word_to_idx, vocab_size |-> t.vocab_size]

\* {v: k for k, v in word_to_idx.items()}
RECURSIVE Invert(_, _)
Invert(items, acc) ==
    IF items = <<>> THEN acc
    ELSE Invert(Tail(items), DictSet(acc, Head(items)[2], Head(items)[1]))

\* Directories written by something other than this scorer's save
ForeignVocabSize == VocabSize - 1
ForeignTok ==
    [kind |-> "json", keys |-> {"word_to_idx", "vocab_size"},
     word_to_idx |-> << << <<"x">>, 0 >>, << <<"u">>, 1 >> >>,
     vocab_size |-> ForeignVocabSize]
TokNoSize ==
    [kind |-> "json", keys |-> {"word_to_idx"},
     word_to_idx |-> << << <<"x">>, VocabSize >> >>, vocab_size |-> 0]
ForeignNpz(input_size) == NpzOf(NewNetwork(input_size, 2))
NpzNoB3 ==
    [ForeignNpz(ForeignVocabSize + 8) EXCEPT !.names = @ \ {"b3"}]

ForeignDisks ==
    { [tok |-> NoFile,     wts |-> NoFile],
      [tok |-> Garbage,    wts |-> NoFile],
      [tok |-> TokNoSize,  wts |-> ForeignNpz(ForeignVocabSize + 8)],
      [tok |-> ForeignTok, wts |-> Garbage],
      [tok |-> ForeignTok, wts |-> NpzNoB3],
      [tok |-> ForeignTok, wts |-> ForeignNpz(ForeignVocabSize + 8)],
      [tok |-> ForeignTok, wts |-> ForeignNpz(VocabSize + 8)] }

(***************************************************************************)
(* knowledge_base.py: the built-in and the custom documents                *)
(***************************************************************************)
MaxDocs == 3
Urls == {"u1", "u2", "u3"}

\* hashlib.md5(url.encode()).hexdigest()[:8]: 32 bits of the digest, which
\* two URLs can share
Md5Prefix(url) == IF url = "u2" THEN "h2" ELSE "h1"

\* KNOWLEDGE_DOCUMENTS as the module defines it, scaled to two documents
BuiltInDocuments ==
    << [id |-> "react-frontend", title |-> "React Frontend Best Practices",
        tags |-> <<"userInput", "output">>, content |-> "react"],
       [id |-> "api-integration", title |-> "API Integration Patterns",
        tags |-> <<"context">>, content |-> "api"] >>

\* what fetch_url_content(url) can return: the page, or the error of a
\* request that failed
FetchResults(url) ==
    { [success |-> FALSE, error |-> "fetch failed", title |-> "", content |-> "", url |-> ""] }
    \cup { [success |-> TRUE, error |-> "", title |-> "T", content |-> c, url |-> url] :
              c \in {"form", "text"} }

\* the tags argument: None or [] (both <<>>), or a list
TagChoices == { <<>>, <<"auth">> }

\* the keyword search of add_document_from_url, scaled to one keyword
AutoTags(content) == IF content = "form" THEN <<"userInput">> ELSE <<"general">>

\* ids passed to remove_document: of custom documents, of a built-in one, of none
DocIds == {"url-h1", "url-h2", "react-frontend", "url-h9"}

NoAddResult == [success |-> FALSE, error |-> "", document |-> <<>>]
NoKbCall ==
    [op |-> "none", arg |-> "", fetched |-> FALSE, added |-> NoAddResult,
     removed |-> FALSE, before |-> <<>>]

(***************************************************************************)
(* State of the scorer, the heap of networks and the calling threads       *)
(***************************************************************************)
NoNet == [free |-> TRUE]
NoRet == [status |-> "none", op |-> "none", val |-> <<>>]

ModelParams == IF model = 0 THEN <<>> ELSE Params(nets[model])

\* what a caller can observe of the scorer
Snap ==
    [word_to_idx |-> tok.word_to_idx, vocab_size |-> tok.vocab_size,
     params |-> ModelParams, is_trained |-> is_trained]

NoSnap == [word_to_idx |-> <<>>, vocab_size |-> 0, params |-> <<>>, is_trained |-> FALSE]

\* the local variables of backward
NoGrads ==
    [dZ3 |-> <<>>, dW3 |-> <<>>, db3 |-> <<>>, dZ2 |-> <<>>, dW2 |-> <<>>, db2 |-> <<>>,
     dW1 |-> <<>>, db1 |-> <<>>]

IdleThread ==
    [pc |-> "idle", op |-> "none", caller |-> "none", calls |-> 0,
     desc |-> <<>>, batch |-> <<>>, queue |-> <<>>, results |-> <<>>,
     nodes |-> <<>>, node |-> 0,
     X |-> <<>>, m |-> 0, data |-> NoFile, seed |-> 0,
     y |-> <<>>, epochs |-> 0, epoch |-> 0, y_pred |-> <<>>, losses |-> <<>>,
     grads |-> NoGrads,
     ret |-> NoRet,
     \* history of the call, for the properties
     entry |-> NoSnap,
     dist |-> {}, trains |-> 0, passed |-> <<>>]

NoHist ==
    [scoreTrains |-> 0, loadCalls |-> 0,
     ready |-> [i \in ObjIds |-> FALSE], predictUnready |-> FALSE,
     diskClean |-> FALSE,
     saved |-> NoSnap,
     nfits |-> 0, lastCorpus |-> <<>>,
     transformed |-> FALSE, lastText |-> <<>>, lastVec |-> [ok |-> TRUE, v |-> <<>>],
     classified |-> FALSE, lastZ |-> 0, lastScore |-> 0, lastResult |-> <<>>,
     netops |-> <<>>, shadow |-> NoNet,
     firstRun |-> [seed |-> 0, calls |-> 0, snap |-> NoSnap],
     kb |-> NoKbCall]

Live(mref, thr) == {mref} \cup {thr[t].m : t \in DOMAIN thr}
GC(h, mref, thr) == [i \in ObjIds |-> IF i \in Live(mref, thr) THEN h[i] ELSE NoNet]
GCReady(r, mref, thr) == [i \in ObjIds |-> i \in Live(mref, thr) /\ r[i]]
\* the address of a new object: one that no thread holds
Alloc == CHOOSE i \in ObjIds :
            /\ \A t \in DOMAIN th : th[t].m # i
            /\ \A j \in ObjIds : (\A t \in DOMAIN th : th[t].m # j) => i <= j

Enter(r, op) ==
    [r EXCEPT !.pc = "entered", !.op = op, !.calls = @ + 1, !.ret = NoRet,
              !.entry = Snap, !.dist = {}, !.trains = 0, !.passed = <<>>]

Finished(r, status, val) ==
    [r EXCEPT !.pc = "done", !.ret = [status |-> status, op |-> r.op, val |-> val],
              !.caller = "none", !.queue = <<>>, !.results = <<>>,
              !.X = <<>>, !.m = 0, !.data = NoFile, !.node = 0,
              !.y = <<>>, !.epochs = 0, !.epoch = 0, !.y_pred = <<>>, !.losses = <<>>,
              !.grads = NoGrads]

\* a write to the scorer by thread t is seen by the calls in progress
Disturb(thr, t) ==
    [u \in DOMAIN thr |->
        IF u # t /\ thr[u].pc # "idle"
        THEN [thr[u] EXCEPT !.dist = @ \cup {<<thr[t].op, t, thr[t].calls>>}]
        ELSE thr[u]]

InitScorer ==
    /\ tok = NewTokenizer(VocabSize)
    /\ model = 0
    /\ is_trained = FALSE

InitRest ==
    /\ nets = [i \in ObjIds |-> NoNet]
    /\ disk = [tok |-> NoFile, wts |-> NoFile]
    /\ gen = 1
    /\ scorer_instance = "None"
    /\ CUSTOM_DOCUMENTS = <<>>
    /\ KNOWLEDGE_DOCUMENTS = BuiltInDocuments
    /\ hist = NoHist

Init ==
    /\ InitScorer
    /\ InitRest
    /\ th = [t \in SeqThreads |-> IdleThread]

\* what train() leaves on a freshly constructed scorer whose network is
\* initialised from generator state seed
FreshTrain(seed) ==
    LET t == Fit(NewTokenizer(VocabSize), TrainingTexts)
        X == AsTuple([i \in DOMAIN TrainingTexts |-> Transform(t, TrainingTexts[i]).v])
    IN [tok |-> t,
        net |-> NetTrain(NewNetwork(InputSize(t), seed), X, TrainingScores,
                         Epochs, LearningRate).net]

\* Two threads, each with MaxConcCalls calls of train, score or load to make,
\* on a scorer that is either new or has been trained by one call of train(),
\* with the model directory holding a model saved elsewhere.
MaxConcCalls == 1
ConcDisk == [tok |-> ForeignTok, wts |-> ForeignNpz(ForeignVocabSize + 8)]

InitConc ==
    /\ \/ InitScorer /\ nets = [i \in ObjIds |-> NoNet] /\ hist = NoHist
       \/ /\ tok = FreshTrain(1).tok
          /\ model = 1
          /\ is_trained = TRUE
          /\ nets = [i \in ObjIds |-> IF i = 1 THEN FreshTrain(1).net ELSE NoNet]
          /\ hist = [NoHist EXCEPT !.ready[1] = TRUE]
    /\ disk = ConcDisk
    /\ gen = 1
    /\ scorer_instance = "None"
    /\ CUSTOM_DOCUMENTS = <<>>
    /\ KNOWLEDGE_DOCUMENTS = BuiltInDocuments
    /\ th = [t \in ConcThreads |-> [IdleThread EXCEPT !.calls = MaxCalls - MaxConcCalls]]

\* A stand-alone SimpleTokenizer(vocab_size=vs)
TokTexts == { <<"a", " ", "a", " ", "b">>, <<"b", " ", "c">>, <<"c", ",", "c", " ", "c">> }
Corpora == {<<>>} \cup {<<x>> : x \in TokTexts} \cup {<<x, y>> : x, y \in TokTexts}

\* texts to transform: the fitted ones, the empty string, one without any
\* alphanumeric character and one whose only word is in no corpus
TransformTexts == TokTexts \cup { <<>>, <<",", " ", "!">>, <<"x">> }

InitTok ==
    /\ \E vs \in 1..MaxVocab : tok = NewTokenizer(vs)
    /\ model = 0
    /\ is_trained = FALSE
    /\ InitRest
    /\ th = <<>>

(***************************************************************************)
(* Calls.  A thread that is idle calls one method of the scorer.           *)
(***************************************************************************)
CanCall(t) == th[t].pc = "idle" /\ th[t].calls < MaxCalls

CallTrain(t) ==
    /\ CanCall(t)
    /\ th' = [th EXCEPT ![t] = [Enter(@, "train") EXCEPT !.pc = "tr_fit", !.caller = "train", !.trains = 1]]
    /\ UNCHANGED <<tok, model, is_trained, nets, disk, gen, scorer_instance, knowledge_base, hist>>

CallScore(t, d) ==
    /\ CanCall(t)
    /\ th' = [th EXCEPT ![t] = [Enter(@, "score") EXCEPT !.pc = "sc_check", !.desc = d]]
    /\ UNCHANGED <<tok, model, is_trained, nets, disk, gen, scorer_instance, knowledge_base, hist>>

CallScoreBatch(t, ds) ==
    /\ CanCall(t)
    /\ th' = [th EXCEPT ![t] = [Enter(@, "score_batch") EXCEPT !.pc = "sb_next",
                                                               !.batch = ds, !.queue = ds]]
    /\ UNCHANGED <<tok, model, is_trained, nets, disk, gen, scorer_instance, knowledge_base, hist>>

CallSave(t) ==
    /\ CanCall(t)
    /\ th' = [th EXCEPT ![t] = [Enter(@, "save") EXCEPT !.pc = "sv_weights"]]
    /\ UNCHANGED <<tok, model, is_trained, nets, disk, gen, scorer_instance, knowledge_base, hist>>

CallLoad(t) ==
    /\ CanCall(t)
    /\ th' = [th EXCEPT ![t] = [Enter(@, "load") EXCEPT !.pc = "ld_tok"]]
    /\ hist' = [hist EXCEPT !.loadCalls = 1]
    /\ UNCHANGED <<tok, model, is_trained, nets, disk, gen, scorer_instance, knowledge_base>>

\* the call is over: the caller drops what it held
Return(t) ==
    /\ th[t].pc = "done"
    /\ th' = [th EXCEPT ![t] = [IdleThread EXCEPT !.calls = th[t].calls]]
    /\ UNCHANGED <<tok, model, is_trained, nets, disk, gen, scorer_instance, knowledge_base, hist>>

(***************************************************************************)
(* DescriptionScorer.train                                                 *)
(***************************************************************************)
\* self.tokenizer.fit(texts)
TrainFit(t) ==
    /\ th[t].pc = "tr_fit"
    /\ tok' = Fit(tok, TrainingTexts)
    /\ th' = Disturb([th EXCEPT ![t].pc = "tr_transform"], t)
    /\ UNCHANGED <<model, is_trained, nets, disk, gen, scorer_instance, knowledge_base, hist>>

\* X = np.array([self.tokenizer.transform(text) for text in texts])
TrainTransform(t) ==
    /\ th[t].pc = "tr_transform"
    /\ LET rows == AsTuple([i \in DOMAIN TrainingTexts |-> Transform(tok, TrainingTexts[i])])
       IN IF \A i \in DOMAIN rows : rows[i].ok
          THEN /\ th' = [th EXCEPT ![t].pc = "tr_new",
                                   ![t].X = AsTuple([i \in DOMAIN rows |-> rows[i].v])]
               /\ UNCHANGED nets
          ELSE /\ th' = [th EXCEPT ![t] = Finished(@, "error", <<>>)]
               /\ nets' = GC(nets, model, th')
    /\ hist' = [hist EXCEPT !.ready = GCReady(@, model, th')]
    /\ UNCHANGED <<tok, model, is_trained, disk, gen, scorer_instance, knowledge_base>>

\* a constructor whose weights depend on the process as well as on the seed
TrainNewOtherSeed(t, seed) ==
    /\ th[t].pc = "tr_new"
    /\ model' = Alloc
    /\ th' = Disturb([th EXCEPT ![t].pc = "tr_train", ![t].seed = seed], t)
    /\ nets' = GC([nets EXCEPT ![Alloc] = NewNetwork(InputSize(tok),
                                            IF gen = 1 THEN seed ELSE 3 - seed)], Alloc, th')
    /\ hist' = [hist EXCEPT !.ready = GCReady([@ EXCEPT ![Alloc] = FALSE], Alloc, th')]
    /\ UNCHANGED <<tok, is_trained, disk, gen, scorer_instance, knowledge_base>>

\* self.model = DescriptionQualityNetwork(input_size=self.tokenizer.input_size, ...)
TrainNew(t, seed) ==
    /\ th[t].pc = "tr_new"
    /\ model' = Alloc
    /\ th' = Disturb([th EXCEPT ![t].pc = "tr_train", ![t].seed = seed], t)
    /\ nets' = GC([nets EXCEPT ![Alloc] = NewNetwork(InputSize(tok), seed)], Alloc, th')
    /\ hist' = [hist EXCEPT !.ready = GCReady([@ EXCEPT ![Alloc] = FALSE], Alloc, th')]
    /\ UNCHANGED <<tok, is_trained, disk, gen, scorer_instance, knowledge_base>>

\* losses = self.model.train(X, scores, epochs=epochs, learning_rate=learning_rate)
TrainRun(t) ==
    /\ th[t].pc = "tr_train"
    /\ LET r == NetTrain(nets[model], th[t].X, TrainingScores, Epochs, LearningRate)
       IN /\ IF r.ok
             THEN /\ th' = Disturb([th EXCEPT ![t].pc = "tr_done"], t)
                  /\ nets' = [nets EXCEPT ![model] = r.net]
                  /\ hist' = [hist EXCEPT !.ready[model] = TRUE]
             ELSE /\ th' = Disturb([th EXCEPT ![t] = Finished(@, "error", <<>>)], t)
                  /\ nets' = GC([nets EXCEPT ![model] = r.net], model, th')
                  /\ hist' = [hist EXCEPT !.ready = GCReady(@, model, th')]
    /\ UNCHANGED <<tok, model, is_trained, disk, gen, scorer_instance, knowledge_base>>

\* self.is_trained = True; return losses
TrainDone(t) ==
    /\ th[t].pc = "tr_done"
    /\ is_trained' = TRUE
    /\ th' = Disturb([th EXCEPT ![t] = IF th[t].caller = "score"
                                       THEN [th[t] EXCEPT !.pc = "sc_transform"]
                                       ELSE IF th[t].caller = "get_scorer"
                                       THEN [th[t] EXCEPT !.pc = "api_next"]
                                       ELSE Finished(th[t], "ok", <<>>)], t)
    /\ UNCHANGED <<tok, model, nets, disk, gen, scorer_instance, knowledge_base, hist>>

(***************************************************************************)
(* DescriptionScorer.score and score_batch                                 *)
(***************************************************************************)
\* a score() that trains on every call, whatever is_trained says
ScoreCheckAlways(t) ==
    /\ th[t].pc = "sc_check"
    /\ th' = [th EXCEPT ![t].pc = "tr_fit", ![t].caller = "score", ![t].trains = @ + 1]
    /\ hist' = [hist EXCEPT !.scoreTrains = @ + 1]
    /\ UNCHANGED <<tok, model, is_trained, nets, disk, gen, scorer_instance, knowledge_base>>

\* if not self.is_trained: self.train()
ScoreCheck(t) ==
    /\ th[t].pc = "sc_check"
    /\ IF ~is_trained
       THEN /\ th' = [th EXCEPT ![t].pc = "tr_fit", ![t].caller = "score",
                                ![t].trains = @ + 1]
            /\ hist' = [hist EXCEPT !.scoreTrains = @ + 1]
       ELSE /\ th' = [th EXCEPT ![t].pc = "sc_transform"]
            /\ UNCHANGED hist
    /\ UNCHANGED <<tok, model, is_trained, nets, disk, gen, scorer_instance, knowledge_base>>

\* a score() that adds the words of the description to the vocabulary
ScoreTransformLearns(t) ==
    /\ th[t].pc = "sc_transform"
    /\ tok' = Fit(tok, <<th[t].desc>>)
    /\ LET r == Transform(tok', th[t].desc)
       IN IF r.ok
          THEN th' = [th EXCEPT ![t].pc = "sc_predict", ![t].X = <<r.v>>]
          ELSE th' = [th EXCEPT ![t] = Finished(@, "error", <<>>)]
    /\ nets' = GC(nets, model, th')
    /\ hist' = [hist EXCEPT !.ready = GCReady(@, model, th')]
    /\ UNCHANGED <<model, is_trained, disk, gen, scorer_instance, knowledge_base>>

\* X = self.tokenizer.transform(description).reshape(1, -1)
ScoreTransform(t) ==
    /\ th[t].pc = "sc_transform"
    /\ LET r == Transform(tok, th[t].desc)
       IN IF r.ok
          THEN th' = [th EXCEPT ![t].pc = "sc_predict", ![t].X = <<r.v>>]
          ELSE th' = [th EXCEPT ![t] = Finished(@, "error", <<>>)]
    /\ nets' = GC(nets, model, th')
    /\ hist' = [hist EXCEPT !.ready = GCReady(@, model, th')]
    /\ UNCHANGED <<tok, model, is_trained, disk, gen, scorer_instance, knowledge_base>>

\* self.model.predict(X): forward, layer 1, on the network self.model names now
PredictLayer1(t) ==
    /\ th[t].pc = "sc_predict"
    /\ IF model # 0 /\ Layer1OK(nets[model], th[t].X)
       THEN /\ th' = [th EXCEPT ![t].pc = "sc_layer2", ![t].m = model]
            /\ nets' = [nets EXCEPT ![model] = Layer1(@, th[t].X)]
            /\ hist' = [hist EXCEPT !.predictUnready = @ \/ ~hist.ready[model]]
       ELSE /\ th' = [th EXCEPT ![t] = Finished(@, "error", <<>>)]
            /\ nets' = GC(nets, model, th')
            /\ hist' = [hist EXCEPT !.ready = GCReady(@, model, th')]
    /\ UNCHANGED <<tok, model, is_trained, disk, gen, scorer_instance, knowledge_base>>

PredictLayer2(t) ==
    /\ th[t].pc = "sc_layer2"
    /\ IF Layer2OK(nets[th[t].m])
       THEN /\ th' = [th EXCEPT ![t].pc = "sc_layer3"]
            /\ nets' = [nets EXCEPT ![th[t].m] = Layer2(@)]
       ELSE /\ th' = [th EXCEPT ![t] = Finished(@, "error", <<>>)]
            /\ nets' = GC(nets, model, th')
    /\ hist' = [hist EXCEPT !.ready = GCReady(@, model, th')]
    /\ UNCHANGED <<tok, model, is_trained, disk, gen, scorer_instance, knowledge_base>>

PredictLayer3(t) ==
    /\ th[t].pc = "sc_layer3"
    /\ IF Layer3OK(nets[th[t].m])
       THEN /\ th' = [th EXCEPT ![t].pc = "sc_return"]
            /\ nets' = [nets EXCEPT ![th[t].m] = Layer3(@)]
       ELSE /\ th' = [th EXCEPT ![t] = Finished(@, "error", <<>>)]
            /\ nets' = GC(nets, model, th')
    /\ hist' = [hist EXCEPT !.ready = GCReady(@, model, th')]
    /\ UNCHANGED <<tok, model, is_trained, disk, gen, scorer_instance, knowledge_base>>

\* return self.cache['A3']; score = float(...[0, 0]); the result dictionary
ScoreReturn(t) ==
    /\ th[t].pc = "sc_return"
    /\ LET res == ScoreResult(nets[th[t].m].cache.A3[1][1])
       IN th' = [th EXCEPT ![t] =
                    IF th[t].op = "score_batch"
                    THEN [th[t] EXCEPT !.pc = "sb_next", !.results = Append(@, res),
                                       !.X = <<>>, !.m = 0]
                    ELSE IF th[t].op = "score_descriptions"
                    THEN [th[t] EXCEPT !.pc = "api_next",
                                       !.results = Append(@, NodeResult(th[t].node, th[t].desc, res)),
                                       !.X = <<>>, !.m = 0, !.node = 0]
                    ELSE Finished(th[t], "ok", <<res>>)]
    /\ nets' = GC(nets, model, th')
    /\ hist' = [hist EXCEPT !.ready = GCReady(@, model, th')]
    /\ UNCHANGED <<tok, model, is_trained, disk, gen, scorer_instance, knowledge_base>>

\* a score_batch that takes the descriptions from the end of the list
BatchNextFromEnd(t) ==
    /\ th[t].pc = "sb_next"
    /\ th' = [th EXCEPT ![t] =
                 IF th[t].queue = <<>>
                 THEN Finished(th[t], "ok", th[t].results)
                 ELSE [th[t] EXCEPT !.pc = "sc_check",
                                    !.desc = th[t].queue[Len(th[t].queue)],
                                    !.queue = SubSeq(th[t].queue, 1, Len(th[t].queue) - 1)]]
    /\ UNCHANGED <<tok, model, is_trained, nets, disk, gen, scorer_instance, knowledge_base, hist>>

\* return [self.score(desc) for desc in descriptions]
BatchNext(t) ==
    /\ th[t].pc = "sb_next"
    /\ th' = [th EXCEPT ![t] =
                 IF th[t].queue = <<>>
                 THEN Finished(th[t], "ok", th[t].results)
                 ELSE [th[t] EXCEPT !.pc = "sc_check", !.desc = Head(th[t].queue),
                                    !.queue = Tail(th[t].queue)]]
    /\ UNCHANGED <<tok, model, is_trained, nets, disk, gen, scorer_instance, knowledge_base, hist>>

(***************************************************************************)
(* DescriptionScorer.save                                                  *)
(***************************************************************************)
\* os.makedirs(directory); self.model.save(f"{directory}/weights.npz")
SaveWeights(t) ==
    /\ th[t].pc = "sv_weights"
    /\ IF model # 0
       THEN /\ disk' = [disk EXCEPT !.wts = NpzOf(nets[model])]
            /\ th' = [th EXCEPT ![t].pc = "sv_tok"]
            /\ hist' = [hist EXCEPT !.diskClean = FALSE]
       ELSE /\ th' = [th EXCEPT ![t] = Finished(@, "error", <<>>)]
            /\ UNCHANGED <<disk, hist>>
    /\ UNCHANGED <<tok, model, is_trained, nets, gen, scorer_instance, knowledge_base>>

\* json.dump({"word_to_idx": ..., "vocab_size": ...}, f)
SaveTokenizer(t) ==
    /\ th[t].pc = "sv_tok"
    /\ disk' = [disk EXCEPT !.tok = TokJsonOf(tok)]
    /\ th' = [th EXCEPT ![t] = Finished(@, "ok", <<>>)]
    /\ hist' = [hist EXCEPT !.diskClean = TRUE, !.saved = Snap]
    /\ UNCHANGED <<tok, model, is_trained, nets, gen, scorer_instance, knowledge_base>>

(***************************************************************************)
(* DescriptionScorer.load                                                  *)
(***************************************************************************)
\* with open(...) as f: data = json.load(f); word_to_idx = ...; idx_to_word = ...
LoadTokenizer(t) ==
    /\ th[t].pc = "ld_tok"
    /\ IF disk.tok.kind = "json" /\ "word_to_idx" \in disk.tok.keys
       THEN /\ tok' = [tok EXCEPT !.word_to_idx = disk.tok.word_to_idx,
                                  !.idx_to_word = Invert(disk.tok.word_to_idx, <<>>)]
            /\ th' = Disturb([th EXCEPT ![t].pc = "ld_size", ![t].data = disk.tok], t)
            /\ UNCHANGED hist
       ELSE /\ th' = [th EXCEPT ![t] = Finished(@, "error", <<>>)]
            /\ UNCHANGED hist
            /\ UNCHANGED tok
    /\ UNCHANGED <<model, is_trained, nets, disk, gen, scorer_instance, knowledge_base>>

\* self.tokenizer.vocab_size = data["vocab_size"]
LoadVocabSize(t) ==
    /\ th[t].pc = "ld_size"
    /\ IF "vocab_size" \in th[t].data.keys
       THEN /\ tok' = [tok EXCEPT !.vocab_size = th[t].data.vocab_size]
            /\ th' = Disturb([th EXCEPT ![t].pc = "ld_new"], t)
            /\ UNCHANGED hist
       ELSE /\ th' = [th EXCEPT ![t] = Finished(@, "error", <<>>)]
            /\ UNCHANGED hist
            /\ UNCHANGED tok
    /\ UNCHANGED <<model, is_trained, nets, disk, gen, scorer_instance, knowledge_base>>

\* a load() that marks the scorer untrained while the weights are read
LoadNewUntrains(t, seed) ==
    /\ th[t].pc = "ld_new"
    /\ model' = Alloc
    /\ is_trained' = FALSE
    /\ th' = Disturb([th EXCEPT ![t].pc = "ld_weights", ![t].seed = seed], t)
    /\ nets' = GC([nets EXCEPT ![Alloc] = NewNetwork(InputSize(tok), seed)], Alloc, th')
    /\ hist' = [hist EXCEPT !.ready = GCReady([@ EXCEPT ![Alloc] = FALSE], Alloc, th')]
    /\ UNCHANGED <<tok, disk, gen, scorer_instance, knowledge_base>>

\* self.model = DescriptionQualityNetwork(input_size=self.tokenizer.input_size, ...)
LoadNew(t, seed) ==
    /\ th[t].pc = "ld_new"
    /\ model' = Alloc
    /\ th' = Disturb([th EXCEPT ![t].pc = "ld_weights", ![t].seed = seed], t)
    /\ nets' = GC([nets EXCEPT ![Alloc] = NewNetwork(InputSize(tok), seed)], Alloc, th')
    /\ hist' = [hist EXCEPT !.ready = GCReady([@ EXCEPT ![Alloc] = FALSE], Alloc, th')]
    /\ UNCHANGED <<tok, is_trained, disk, gen, scorer_instance, knowledge_base>>

SetParam(n, name, f) ==
    CASE name = "W1" -> [n EXCEPT !.W1 = f.W1]
      [] name = "b1" -> [n EXCEPT !.b1 = f.b1]
      [] name = "W2" -> [n EXCEPT !.W2 = f.W2]
      [] name = "b2" -> [n EXCEPT !.b2 = f.b2]
      [] name = "W3" -> [n EXCEPT !.W3 = f.W3]
      [] name = "b3" -> [n EXCEPT !.b3 = f.b3]

\* DescriptionQualityNetwork.load: self.W1 = data['W1'] ... self.b3 = data['b3'],
\* in this order, up to the first array the archive does not hold
RECURSIVE AssignParams(_, _, _)
AssignParams(n, f, names) ==
    IF names = <<>> THEN [ok |-> TRUE, net |-> n]
    ELSE IF Head(names) \notin f.names THEN [ok |-> FALSE, net |-> n]
         ELSE AssignParams(SetParam(n, Head(names), f), f, Tail(names))

\* a Network.load that leaves the output bias as constructed
NetLoadWithoutB3(n, f) ==
    IF f.kind # "npz" THEN [ok |-> FALSE, net |-> n]
    ELSE AssignParams(n, f, SubSeq(ParamNames, 1, Len(ParamNames) - 1))

NetLoad(n, f) ==
    IF f.kind # "npz" THEN [ok |-> FALSE, net |-> n]
    ELSE AssignParams(n, f, ParamNames)

\* self.model.load(f"{directory}/weights.npz")
LoadWeights(t) ==
    /\ th[t].pc = "ld_weights"
    /\ LET r == NetLoad(nets[model], disk.wts)
       IN /\ nets' = [nets EXCEPT ![model] = r.net]
          /\ IF r.ok
             THEN /\ th' = Disturb([th EXCEPT ![t].pc = "ld_done"], t)
                  /\ hist' = [hist EXCEPT !.ready[model] = TRUE]
             ELSE /\ th' = Disturb([th EXCEPT ![t] = Finished(@, "error", <<>>)], t)
                  /\ UNCHANGED hist
    /\ UNCHANGED <<tok, model, is_trained, disk, gen, scorer_instance, knowledge_base>>

\* self.is_trained = True
LoadDone(t) ==
    /\ th[t].pc = "ld_done"
    /\ is_trained' = TRUE
    /\ th' = Disturb([th EXCEPT ![t] = Finished(@, "ok", <<>>)], t)
    /\ UNCHANGED <<tok, model, nets, disk, gen, scorer_instance, knowledge_base, hist>>

(***************************************************************************)
(* main.py: the handler of POST /api/score-descriptions, and get_scorer    *)
(***************************************************************************)
CallScoreDescriptions(t, req) ==
    /\ CanCall(t)
    /\ th' = [th EXCEPT ![t] = [Enter(@, "score_descriptions") EXCEPT
                                    !.pc = "api_get", !.nodes = req, !.queue = req]]
    /\ UNCHANGED <<tok, model, is_trained, nets, disk, gen, scorer_instance, knowledge_base, hist>>

\* scorer = get_scorer(): if _scorer_instance is None, a DescriptionScorer is
\* constructed, published and then trained
GetScorer(t) ==
    /\ th[t].pc = "api_get"
    /\ IF scorer_instance = "None"
       THEN /\ scorer_instance' = "DescriptionScorer"
            /\ UNCHANGED knowledge_base
            /\ tok' = NewTokenizer(VocabSize)
            /\ model' = 0
            /\ is_trained' = FALSE
            /\ th' = Disturb([th EXCEPT ![t].pc = "tr_fit", ![t].caller = "get_scorer",
                                        ![t].trains = @ + 1], t)
            /\ nets' = GC(nets, 0, th')
            /\ hist' = [hist EXCEPT !.ready = GCReady(@, 0, th')]
       ELSE /\ th' = [th EXCEPT ![t].pc = "api_next"]
            /\ UNCHANGED <<tok, model, is_trained, nets, scorer_instance, knowledge_base, hist>>
    /\ UNCHANGED <<disk, gen>>

\* a handler that scores every node that is not a note, described or not
ApiNextScoresAll(t) ==
    /\ th[t].pc = "api_next"
    /\ th' = [th EXCEPT ![t] =
                 IF th[t].queue = <<>>
                 THEN Finished(th[t], "ok", th[t].results)
                 ELSE LET node == Head(th[t].queue)
                          description == DescriptionOrEmpty(node)
                      IN IF node.type = "notes"
                         THEN [th[t] EXCEPT !.queue = Tail(th[t].queue)]
                         ELSE [th[t] EXCEPT !.pc = "sc_check", !.node = node,
                                            !.desc = description,
                                            !.passed = Append(@, description),
                                            !.queue = Tail(th[t].queue)]]
    /\ UNCHANGED <<tok, model, is_trained, nets, disk, gen, scorer_instance, knowledge_base, hist>>

\* for node in request.nodes: notes are skipped, a description is scored, an
\* empty or absent one gets the fixed result; then the response is returned
ApiNext(t) ==
    /\ th[t].pc = "api_next"
    /\ th' = [th EXCEPT ![t] =
                 IF th[t].queue = <<>>
                 THEN Finished(th[t], "ok", th[t].results)
                 ELSE LET node == Head(th[t].queue)
                          description == DescriptionOrEmpty(node)
                      IN IF node.type = "notes"
                         THEN [th[t] EXCEPT !.queue = Tail(th[t].queue)]
                         ELSE IF description # <<>>
                         THEN [th[t] EXCEPT !.pc = "sc_check", !.node = node,
                                            !.desc = description,
                                            !.passed = Append(@, description),
                                            !.queue = Tail(th[t].queue)]
                         ELSE [th[t] EXCEPT !.queue = Tail(th[t].queue),
                                            !.results = Append(@, NodeResult(node, description, MissingResult))]]
    /\ UNCHANGED <<tok, model, is_trained, nets, disk, gen, scorer_instance, knowledge_base, hist>>

(***************************************************************************)
(* The environment: the directory is replaced, and a new scorer is         *)
(* constructed (DescriptionScorer.__init__) in place of the old one        *)
(***************************************************************************)
AllIdle == \A t \in DOMAIN th : th[t].pc = "idle"

\* the directory as the scorer finds it, before the first call
Tamper(c) ==
    /\ AllIdle
    /\ \A t \in DOMAIN th : th[t].calls = 0
    /\ c # disk
    /\ disk' = c
    /\ hist' = [hist EXCEPT !.diskClean = FALSE, !.saved = NoSnap]
    /\ UNCHANGED <<tok, model, is_trained, nets, th, gen, scorer_instance, knowledge_base>>

\* a new process, started to use the model a previous one saved
Restart ==
    /\ AllIdle
    /\ hist.diskClean
    /\ gen < MaxGen
    /\ gen' = gen + 1
    /\ scorer_instance' = "None"
    /\ CUSTOM_DOCUMENTS' = <<>>
    /\ KNOWLEDGE_DOCUMENTS' = BuiltInDocuments
    /\ tok' = NewTokenizer(VocabSize)
    /\ model' = 0
    /\ is_trained' = FALSE
    /\ nets' = [i \in ObjIds |-> NoNet]
    /\ th' = [t \in DOMAIN th |-> IdleThread]
    /\ hist' = [NoHist EXCEPT !.diskClean = hist.diskClean, !.saved = hist.saved]
    /\ UNCHANGED disk

(***************************************************************************)
(* Specifications                                                          *)
(***************************************************************************)
Next ==
    \/ \E t \in DOMAIN th : CallTrain(t)
    \/ \E t \in DOMAIN th : \E d \in Descriptions : CallScore(t, d)
    \/ \E t \in DOMAIN th : \E ds \in Batches : CallScoreBatch(t, ds)
    \/ \E t \in DOMAIN th : CallSave(t)
    \/ \E t \in DOMAIN th : CallLoad(t)
    \/ \E t \in DOMAIN th : TrainFit(t)
    \/ \E t \in DOMAIN th : TrainTransform(t)
    \/ \E t \in DOMAIN th : \E seed \in Seeds : TrainNew(t, seed)
    \/ \E t \in DOMAIN th : TrainRun(t)
    \/ \E t \in DOMAIN th : TrainDone(t)
    \/ \E t \in DOMAIN th : ScoreCheck(t)
    \/ \E t \in DOMAIN th : ScoreTransform(t)
    \/ \E t \in DOMAIN th : PredictLayer1(t)
    \/ \E t \in DOMAIN th : PredictLayer2(t)
    \/ \E t \in DOMAIN th : PredictLayer3(t)
    \/ \E t \in DOMAIN th : ScoreReturn(t)
    \/ \E t \in DOMAIN th : BatchNext(t)
    \/ \E t \in DOMAIN th : SaveWeights(t)
    \/ \E t \in DOMAIN th : SaveTokenizer(t)
    \/ \E t \in DOMAIN th : LoadTokenizer(t)
    \/ \E t \in DOMAIN th : LoadVocabSize(t)
    \/ \E t \in DOMAIN th : \E seed \in Seeds : LoadNew(t, seed)
    \/ \E t \in DOMAIN th : LoadWeights(t)
    \/ \E t \in DOMAIN th : LoadDone(t)
    \/ \E t \in DOMAIN th : Return(t)
    \/ \E c \in ForeignDisks : Tamper(c)
    \/ Restart

\* tokenizer.fit(texts) on the stand-alone tokenizer
TokFit(texts) ==
    /\ hist.nfits < MaxFits
    /\ tok' = Fit(tok, texts)
    /\ hist' = [hist EXCEPT !.nfits = @ + 1, !.lastCorpus = texts,
                            !.transformed = FALSE, !.lastText = <<>>,
                            !.lastVec = NoHist.lastVec]
    /\ UNCHANGED <<model, is_trained, nets, disk, th, gen, scorer_instance, knowledge_base>>

\* tokenizer.transform(text) on the stand-alone tokenizer
TokTransform(text) ==
    /\ hist' = [hist EXCEPT !.transformed = TRUE, !.lastText = text,
                            !.lastVec = Transform(tok, text)]
    /\ UNCHANGED <<tok, model, is_trained, nets, disk, th, gen, scorer_instance, knowledge_base>>

NextTok ==
    \/ \E texts \in Corpora : TokFit(texts)
    \/ \E text \in TransformTexts : TokTransform(text)

NextConc ==
    \/ \E t \in DOMAIN th : CallTrain(t)
    \/ \E t \in DOMAIN th : \E d \in Descriptions : CallScore(t, d)
    \/ \E t \in DOMAIN th : CallLoad(t)
    \/ \E t \in DOMAIN th : TrainFit(t)
    \/ \E t \in DOMAIN th : TrainTransform(t)
    \/ \E t \in DOMAIN th : \E seed \in Seeds : TrainNew(t, seed)
    \/ \E t \in DOMAIN th : TrainRun(t)
    \/ \E t \in DOMAIN th : TrainDone(t)
    \/ \E t \in DOMAIN th : ScoreCheck(t)
    \/ \E t \in DOMAIN th : ScoreTransform(t)
    \/ \E t \in DOMAIN th : PredictLayer1(t)
    \/ \E t \in DOMAIN th : PredictLayer2(t)
    \/ \E t \in DOMAIN th : PredictLayer3(t)
    \/ \E t \in DOMAIN th : ScoreReturn(t)
    \/ \E t \in DOMAIN th : LoadTokenizer(t)
    \/ \E t \in DOMAIN th : LoadVocabSize(t)
    \/ \E t \in DOMAIN th : \E seed \in Seeds : LoadNew(t, seed)
    \/ \E t \in DOMAIN th : LoadWeights(t)
    \/ \E t \in DOMAIN th : LoadDone(t)
    \/ \E t \in DOMAIN th : Return(t)

\* one caller at a time
Spec == Init /\ [][Next]_vars

\* callers on two threads
SpecConc == InitConc /\ [][NextConc]_vars

\* a tokenizer on its own
SpecTok == InitTok /\ [][NextTok]_vars

\* the server: requests to /api/score-descriptions, one at a time
NextApi ==
    \/ \E t \in DOMAIN th : \E req \in Requests : CallScoreDescriptions(t, req)
    \/ \E t \in DOMAIN th : GetScorer(t)
    \/ \E t \in DOMAIN th : ApiNext(t)
    \/ \E t \in DOMAIN th : TrainFit(t)
    \/ \E t \in DOMAIN th : TrainTransform(t)
    \/ \E t \in DOMAIN th : \E seed \in Seeds : TrainNew(t, seed)
    \/ \E t \in DOMAIN th : TrainRun(t)
    \/ \E t \in DOMAIN th : TrainDone(t)
    \/ \E t \in DOMAIN th : ScoreCheck(t)
    \/ \E t \in DOMAIN th : ScoreTransform(t)
    \/ \E t \in DOMAIN th : PredictLayer1(t)
    \/ \E t \in DOMAIN th : PredictLayer2(t)
    \/ \E t \in DOMAIN th : PredictLayer3(t)
    \/ \E t \in DOMAIN th : ScoreReturn(t)
    \/ \E t \in DOMAIN th : Return(t)

SpecApi == Init /\ [][NextApi]_vars

\* The handler and get_scorer when a statement of train() can raise (a
\* MemoryError of an allocation, an interrupt): the exception leaves train()
\* and get_scorer() and ends the request.
TrainRaises(t) ==
    /\ th[t].pc \in {"tr_fit", "tr_transform", "tr_new", "tr_train"}
    /\ th' = Disturb([th EXCEPT ![t] = Finished(@, "error", <<>>)], t)
    /\ nets' = GC(nets, model, th')
    /\ hist' = [hist EXCEPT !.ready = GCReady(@, model, th')]
    /\ UNCHANGED <<tok, model, is_trained, disk, gen, scorer_instance, knowledge_base>>

NextSingleton ==
    \/ NextApi
    \/ \E t \in DOMAIN th : TrainRaises(t)

SpecSingleton == Init /\ [][NextSingleton]_vars

\* the training examples as one-row inputs of the network
NetExamples == DOMAIN TRAINING_DATA
ExampleX(i) == << Transform(Fit(NewTokenizer(VocabSize), TrainingTexts), TrainingTexts[i]).v >>
ExampleY(i) == << TrainingScores[i] >>

\* DescriptionQualityNetwork.train(X, y, epochs, learning_rate), step by step,
\* on a network the caller has just constructed.  X is one row of the training
\* matrix (i in NetExamples) or the whole of it (i = 0).  hist.shadow is the
\* network as constructed and hist.netops the passes made on it.
WholeX == AsTuple([i \in NetExamples |-> ExampleX(i)[1]])
TrainX(i) == IF i = 0 THEN WholeX ELSE ExampleX(i)
TrainY(i) == IF i = 0 THEN TrainingScores ELSE ExampleY(i)

\* losses = []
CallNetTrain(t, seed, i, epochs) ==
    /\ CanCall(t)
    /\ th' = [th EXCEPT ![t] = [Enter(@, "net_train") EXCEPT
                  !.pc = "nt_loop", !.m = 1, !.seed = seed,
                  !.X = TrainX(i), !.y = TrainY(i), !.epochs = epochs]]
    /\ nets' = [nets EXCEPT ![1] = NewNetwork(InputSize(NewTokenizer(VocabSize)), seed)]
    /\ hist' = [hist EXCEPT !.shadow = NewNetwork(InputSize(NewTokenizer(VocabSize)), seed),
                            !.netops = << <<"train", i, epochs>> >>]
    /\ UNCHANGED <<tok, model, is_trained, disk, gen, scorer_instance, knowledge_base>>

\* a loop that makes one iteration more than asked
NetTrainLoopOneMore(t) ==
    /\ th[t].pc = "nt_loop"
    /\ IF th[t].epoch <= th[t].epochs
       THEN th' = [th EXCEPT ![t].pc = "nt_forward"]
       ELSE th' = [th EXCEPT ![t] = Finished(@, "ok", th[t].losses)]
    /\ UNCHANGED <<tok, model, is_trained, nets, disk, gen, scorer_instance, knowledge_base, hist>>

\* for epoch in range(epochs): ...; return losses
NetTrainLoop(t) ==
    /\ th[t].pc = "nt_loop"
    /\ IF th[t].epoch < th[t].epochs
       THEN th' = [th EXCEPT ![t].pc = "nt_forward"]
       ELSE th' = [th EXCEPT ![t] = Finished(@, "ok", th[t].losses)]
    /\ UNCHANGED <<tok, model, is_trained, nets, disk, gen, scorer_instance, knowledge_base, hist>>

\* y_pred = self.forward(X)
NetTrainForward(t) ==
    /\ th[t].pc = "nt_forward"
    /\ LET f == Forward(nets[th[t].m], th[t].X)
       IN /\ nets' = [nets EXCEPT ![th[t].m] = f.net]
          /\ IF f.ok
             THEN /\ th' = [th EXCEPT ![t].pc = "nt_loss", ![t].y_pred = f.out]
                  /\ hist' = [hist EXCEPT !.netops = Append(@, <<"forward", th[t].epoch, f.out>>)]
             ELSE /\ th' = [th EXCEPT ![t] = Finished(@, "error", <<>>)]
                  /\ UNCHANGED hist
    /\ UNCHANGED <<tok, model, is_trained, disk, gen, scorer_instance, knowledge_base>>

\* loss = self.compute_loss(y_pred, y); losses.append(loss)
NetTrainLoss(t) ==
    /\ th[t].pc = "nt_loss"
    /\ th' = [th EXCEPT ![t].pc = "nt_backward",
                        ![t].losses = Append(@, ComputeLoss(th[t].y_pred, th[t].y))]
    /\ UNCHANGED <<tok, model, is_trained, nets, disk, gen, scorer_instance, knowledge_base, hist>>

\* self.backward(X, y, learning_rate)
NetTrainBackward(t) ==
    /\ th[t].pc = "nt_backward"
    /\ IF BackwardOK(nets[th[t].m], th[t].X, th[t].y)
       THEN /\ nets' = [nets EXCEPT ![th[t].m] = Backward(@, th[t].X, th[t].y, LearningRate)]
            /\ th' = [th EXCEPT ![t].pc = "nt_loop", ![t].epoch = @ + 1]
            /\ hist' = [hist EXCEPT !.netops = Append(@, <<"backward", th[t].epoch>>)]
       ELSE /\ th' = [th EXCEPT ![t] = Finished(@, "error", <<>>)]
            /\ UNCHANGED <<nets, hist>>
    /\ UNCHANGED <<tok, model, is_trained, disk, gen, scorer_instance, knowledge_base>>

\* the caller drops the network
NetTrainReturn(t) ==
    /\ th[t].pc = "done"
    /\ th' = [th EXCEPT ![t] = [IdleThread EXCEPT !.calls = th[t].calls]]
    /\ nets' = [i \in ObjIds |-> NoNet]
    /\ hist' = NoHist
    /\ UNCHANGED <<tok, model, is_trained, disk, gen, scorer_instance, knowledge_base>>

NextLoop ==
    \/ \E t \in DOMAIN th : \E seed \in Seeds : \E i \in {0} \cup NetExamples :
          \E epochs \in 0..(Epochs + 1) : CallNetTrain(t, seed, i, epochs)
    \/ \E t \in DOMAIN th : NetTrainLoop(t)
    \/ \E t \in DOMAIN th : NetTrainForward(t)
    \/ \E t \in DOMAIN th : NetTrainLoss(t)
    \/ \E t \in DOMAIN th : NetTrainBackward(t)
    \/ \E t \in DOMAIN th : NetTrainReturn(t)

SpecLoop == Init /\ [][NextLoop]_vars

\* DescriptionQualityNetwork.backward(X, y, learning_rate), block by block, on
\* a network that has made k training rounds and then forward(X).  Each block
\* reads the parameters the network holds when the block runs.
CallBackward(t, seed, k, i) ==
    /\ CanCall(t)
    /\ LET n0 == NewNetwork(InputSize(NewTokenizer(VocabSize)), seed)
           n1 == NetTrain(n0, WholeX, TrainingScores, k, LearningRate).net
           n2 == Forward(n1, TrainX(i)).net
       IN /\ BackwardOK(n2, TrainX(i), TrainY(i))
          /\ nets' = [nets EXCEPT ![1] = n2]
          /\ hist' = [hist EXCEPT !.shadow = n2, !.netops = << <<"backward", i>> >>]
    /\ th' = [th EXCEPT ![t] = [Enter(@, "backward") EXCEPT
                  !.pc = "bw_out", !.m = 1, !.seed = seed,
                  !.X = TrainX(i), !.y = TrainY(i)]]
    /\ UNCHANGED <<tok, model, is_trained, disk, gen, scorer_instance, knowledge_base>>

\* Output layer gradients
BackwardOutput(t) ==
    /\ th[t].pc = "bw_out"
    /\ LET n == nets[th[t].m]
           m == Rows(th[t].X)
           dZ3 == Zip(Minus, n.cache.A3, th[t].y)
       IN th' = [th EXCEPT ![t].pc = "bw_l2",
                           ![t].grads.dZ3 = dZ3,
                           ![t].grads.dW3 = DivBy(Dot(Transpose(n.cache.A2), dZ3), m),
                           ![t].grads.db3 = DivBy(SumRows(dZ3), m)]
    /\ UNCHANGED <<tok, model, is_trained, nets, disk, gen, scorer_instance, knowledge_base, hist>>

\* a backward that updates W3 before the gradients of layer 2 are taken
BackwardLayer2AfterUpdate(t) ==
    /\ th[t].pc = "bw_l2"
    /\ LET n == nets[th[t].m]
           m == Rows(th[t].X)
           dA2 == Dot(th[t].grads.dZ3, Transpose(Step(n.W3, th[t].grads.dW3, LearningRate)))
           dZ2 == Zip(Times, dA2, relu_derivative(n.cache.Z2))
       IN th' = [th EXCEPT ![t].pc = "bw_l1",
                           ![t].grads.dZ2 = dZ2,
                           ![t].grads.dW2 = DivBy(Dot(Transpose(n.cache.A1), dZ2), m),
                           ![t].grads.db2 = DivBy(SumRows(dZ2), m)]
    /\ UNCHANGED <<tok, model, is_trained, nets, disk, gen, scorer_instance, knowledge_base, hist>>

\* Layer 2 gradients
BackwardLayer2(t) ==
    /\ th[t].pc = "bw_l2"
    /\ LET n == nets[th[t].m]
           m == Rows(th[t].X)
           dA2 == Dot(th[t].grads.dZ3, Transpose(n.W3))
           dZ2 == Zip(Times, dA2, relu_derivative(n.cache.Z2))
       IN th' = [th EXCEPT ![t].pc = "bw_l1",
                           ![t].grads.dZ2 = dZ2,
                           ![t].grads.dW2 = DivBy(Dot(Transpose(n.cache.A1), dZ2), m),
                           ![t].grads.db2 = DivBy(SumRows(dZ2), m)]
    /\ UNCHANGED <<tok, model, is_trained, nets, disk, gen, scorer_instance, knowledge_base, hist>>

\* Layer 1 gradients
BackwardLayer1(t) ==
    /\ th[t].pc = "bw_l1"
    /\ LET n == nets[th[t].m]
           m == Rows(th[t].X)
           dA1 == Dot(th[t].grads.dZ2, Transpose(n.W2))
           dZ1 == Zip(Times, dA1, relu_derivative(n.cache.Z1))
       IN th' = [th EXCEPT ![t].pc = "bw_upd3",
                           ![t].grads.dW1 = DivBy(Dot(Transpose(th[t].X), dZ1), m),
                           ![t].grads.db1 = DivBy(SumRows(dZ1), m)]
    /\ UNCHANGED <<tok, model, is_trained, nets, disk, gen, scorer_instance, knowledge_base, hist>>

\* self.W3 -= learning_rate * dW3; self.b3 -= learning_rate * db3
BackwardUpdate3(t) ==
    /\ th[t].pc = "bw_upd3"
    /\ nets' = [nets EXCEPT ![th[t].m].W3 = Step(@, th[t].grads.dW3, LearningRate),
                            ![th[t].m].b3 = Step(@, th[t].grads.db3, LearningRate)]
    /\ th' = [th EXCEPT ![t].pc = "bw_upd2"]
    /\ UNCHANGED <<tok, model, is_trained, disk, gen, scorer_instance, knowledge_base, hist>>

\* self.W2 -= learning_rate * dW2; self.b2 -= learning_rate * db2
BackwardUpdate2(t) ==
    /\ th[t].pc = "bw_upd2"
    /\ nets' = [nets EXCEPT ![th[t].m].W2 = Step(@, th[t].grads.dW2, LearningRate),
                            ![th[t].m].b2 = Step(@, th[t].grads.db2, LearningRate)]
    /\ th' = [th EXCEPT ![t].pc = "bw_upd1"]
    /\ UNCHANGED <<tok, model, is_trained, disk, gen, scorer_instance, knowledge_base, hist>>

\* self.W1 -= learning_rate * dW1; self.b1 -= learning_rate * db1
BackwardUpdate1(t) ==
    /\ th[t].pc = "bw_upd1"
    /\ nets' = [nets EXCEPT ![th[t].m].W1 = Step(@, th[t].grads.dW1, LearningRate),
                            ![th[t].m].b1 = Step(@, th[t].grads.db1, LearningRate)]
    /\ th' = [th EXCEPT ![t] = Finished(@, "ok", <<>>)]
    /\ UNCHANGED <<tok, model, is_trained, disk, gen, scorer_instance, knowledge_base, hist>>

NextBack ==
    \/ \E t \in DOMAIN th : \E seed \in Seeds : \E k \in 0..Epochs :
          \E i \in {0} \cup NetExamples : CallBackward(t, seed, k, i)
    \/ \E t \in DOMAIN th : BackwardOutput(t)
    \/ \E t \in DOMAIN th : BackwardLayer2(t)
    \/ \E t \in DOMAIN th : BackwardLayer1(t)
    \/ \E t \in DOMAIN th : BackwardUpdate3(t)
    \/ \E t \in DOMAIN th : BackwardUpdate2(t)
    \/ \E t \in DOMAIN th : BackwardUpdate1(t)
    \/ \E t \in DOMAIN th : NetTrainReturn(t)

SpecBack == Init /\ [][NextBack]_vars

\* an add that does not look for the URL among the custom documents
AddDocumentWithoutCheck(url, tags, result) ==
    /\ Len(CUSTOM_DOCUMENTS) < MaxDocs
    /\ LET doc_id == Md5Prefix(url)
           new_doc == [id |-> "url-" \o doc_id, title |-> result.title,
                       tags |-> IF tags = <<>> THEN AutoTags(result.content) ELSE tags,
                       content |-> result.content, url |-> url, source |-> "url"]
           ret == IF ~result.success
                  THEN [success |-> FALSE, error |-> result.error, document |-> <<>>]
                  ELSE [success |-> TRUE, error |-> "",
                        document |-> <<new_doc.id, new_doc.title, new_doc.tags>>]
       IN /\ CUSTOM_DOCUMENTS' = IF ret.success THEN Append(CUSTOM_DOCUMENTS, new_doc)
                                 ELSE CUSTOM_DOCUMENTS
          /\ hist' = [hist EXCEPT !.kb = [op |-> "add", arg |-> url,
                                          fetched |-> result.success,
                                          added |-> ret, removed |-> FALSE,
                                          before |-> CUSTOM_DOCUMENTS]]
    /\ UNCHANGED <<tok, model, is_trained, nets, disk, th, gen, scorer_instance,
                   KNOWLEDGE_DOCUMENTS>>

\* knowledge_base.add_document_from_url(url, tags); result is what
\* fetch_url_content returns if it is called
AddDocumentFromUrl(url, tags, result) ==
    /\ Len(CUSTOM_DOCUMENTS) < MaxDocs
    /\ LET doc_id == Md5Prefix(url)
           exists == \E i \in DOMAIN CUSTOM_DOCUMENTS : CUSTOM_DOCUMENTS[i].url = url
           new_doc == [id |-> "url-" \o doc_id, title |-> result.title,
                       tags |-> IF tags = <<>> THEN AutoTags(result.content) ELSE tags,
                       content |-> result.content, url |-> url, source |-> "url"]
           ret == IF exists
                  THEN [success |-> FALSE, error |-> "URL already in knowledge base",
                        document |-> <<>>]
                  ELSE IF ~result.success
                  THEN [success |-> FALSE, error |-> result.error, document |-> <<>>]
                  ELSE [success |-> TRUE, error |-> "",
                        document |-> <<new_doc.id, new_doc.title, new_doc.tags>>]
       IN /\ CUSTOM_DOCUMENTS' = IF ret.success THEN Append(CUSTOM_DOCUMENTS, new_doc)
                                 ELSE CUSTOM_DOCUMENTS
          /\ hist' = [hist EXCEPT !.kb = [op |-> "add", arg |-> url,
                                          fetched |-> ~exists /\ result.success,
                                          added |-> ret, removed |-> FALSE,
                                          before |-> CUSTOM_DOCUMENTS]]
    /\ UNCHANGED <<tok, model, is_trained, nets, disk, th, gen, scorer_instance,
                   KNOWLEDGE_DOCUMENTS>>

\* a remove that filters the built-in documents as well
RemoveDocumentFromAll(doc_id) ==
    /\ LET Keep(d) == d.id # doc_id
           original_len == Len(CUSTOM_DOCUMENTS)
       IN /\ CUSTOM_DOCUMENTS' = SelectSeq(CUSTOM_DOCUMENTS, Keep)
          /\ KNOWLEDGE_DOCUMENTS' = SelectSeq(KNOWLEDGE_DOCUMENTS, Keep)
          /\ hist' = [hist EXCEPT !.kb = [op |-> "remove", arg |-> doc_id,
                                          fetched |-> FALSE, added |-> NoAddResult,
                                          removed |-> Len(CUSTOM_DOCUMENTS') < original_len,
                                          before |-> CUSTOM_DOCUMENTS]]
    /\ UNCHANGED <<tok, model, is_trained, nets, disk, th, gen, scorer_instance>>

\* knowledge_base.remove_document(doc_id)
RemoveDocument(doc_id) ==
    /\ LET Keep(d) == d.id # doc_id
           original_len == Len(CUSTOM_DOCUMENTS)
       IN /\ CUSTOM_DOCUMENTS' = SelectSeq(CUSTOM_DOCUMENTS, Keep)
          /\ hist' = [hist EXCEPT !.kb = [op |-> "remove", arg |-> doc_id,
                                          fetched |-> FALSE, added |-> NoAddResult,
                                          removed |-> Len(CUSTOM_DOCUMENTS') < original_len,
                                          before |-> CUSTOM_DOCUMENTS]]
    /\ UNCHANGED <<tok, model, is_trained, nets, disk, th, gen, scorer_instance,
                   KNOWLEDGE_DOCUMENTS>>

InitKb ==
    /\ InitScorer
    /\ InitRest
    /\ th = <<>>

NextKb ==
    \/ \E url \in Urls : \E tags \in TagChoices : \E result \in FetchResults(url) :
          AddDocumentFromUrl(url, tags, result)
    \/ \E doc_id \in DocIds : RemoveDocument(doc_id)

SpecKb == InitKb /\ [][NextKb]_vars

\* Two independent runs: a process calls train() on its scorer, with numpy's
\* generator in the state seed when the network is built; when a call of
\* train() has returned, the process ends and another starts with a new
\* scorer.  hist.firstRun keeps what the first process ended with.
SecondProcess ==
    /\ gen < MaxGen
    /\ \E t \in DOMAIN th :
          /\ th[t].pc = "done" /\ th[t].ret.op = "train" /\ th[t].ret.status = "ok"
          /\ hist' = [NoHist EXCEPT !.firstRun =
                         [seed |-> th[t].seed, calls |-> th[t].calls, snap |-> Snap]]
    /\ gen' = gen + 1
    /\ tok' = NewTokenizer(VocabSize)
    /\ model' = 0
    /\ is_trained' = FALSE
    /\ nets' = [i \in ObjIds |-> NoNet]
    /\ th' = [t \in DOMAIN th |-> IdleThread]
    /\ UNCHANGED <<disk, scorer_instance, knowledge_base>>

NextDet ==
    \/ \E t \in DOMAIN th : CallTrain(t)
    \/ \E t \in DOMAIN th : TrainFit(t)
    \/ \E t \in DOMAIN th : TrainTransform(t)
    \/ \E t \in DOMAIN th : \E seed \in Seeds : TrainNew(t, seed)
    \/ \E t \in DOMAIN th : TrainRun(t)
    \/ \E t \in DOMAIN th : TrainDone(t)
    \/ \E t \in DOMAIN th : Return(t)
    \/ SecondProcess

SpecDet == Init /\ [][NextDet]_vars

\* A DescriptionQualityNetwork on its own, nets[1], on which forward,
\* predict and backward are called with examples of the training data.
\* hist.shadow is the same network on which the predict calls are left out.
MaxNetOps == 3

InitNet ==
    /\ InitScorer
    /\ InitRest
    /\ th = <<>>

NetNew(seed) ==
    /\ hist.netops = <<>>
    /\ nets[1] = NoNet
    /\ nets' = [nets EXCEPT ![1] = NewNetwork(InputSize(NewTokenizer(VocabSize)), seed)]
    /\ hist' = [hist EXCEPT !.shadow = NewNetwork(InputSize(NewTokenizer(VocabSize)), seed)]
    /\ UNCHANGED <<tok, model, is_trained, disk, th, gen, scorer_instance, knowledge_base>>

NetForward(i) ==
    /\ nets[1] # NoNet
    /\ Len(hist.netops) < MaxNetOps
    /\ Forward(nets[1], ExampleX(i)).ok
    /\ nets' = [nets EXCEPT ![1] = Forward(@, ExampleX(i)).net]
    /\ hist' = [hist EXCEPT !.netops = Append(@, <<"forward", i>>),
                            !.shadow = Forward(@, ExampleX(i)).net]
    /\ UNCHANGED <<tok, model, is_trained, disk, th, gen, scorer_instance, knowledge_base>>

\* predict(X) is forward(X)
NetPredict(i) ==
    /\ nets[1] # NoNet
    /\ Len(hist.netops) < MaxNetOps
    /\ Forward(nets[1], ExampleX(i)).ok
    /\ nets' = [nets EXCEPT ![1] = Forward(@, ExampleX(i)).net]
    /\ hist' = [hist EXCEPT !.netops = Append(@, <<"predict", i>>)]
    /\ UNCHANGED <<tok, model, is_trained, disk, th, gen, scorer_instance, knowledge_base>>

NetBackward(i) ==
    /\ nets[1] # NoNet
    /\ Len(hist.netops) < MaxNetOps
    /\ BackwardOK(nets[1], ExampleX(i), ExampleY(i))
    /\ BackwardOK(hist.shadow, ExampleX(i), ExampleY(i))
    /\ nets' = [nets EXCEPT ![1] = Backward(@, ExampleX(i), ExampleY(i), LearningRate)]
    /\ hist' = [hist EXCEPT !.netops = Append(@, <<"backward", i>>),
                            !.shadow = Backward(@, ExampleX(i), ExampleY(i), LearningRate)]
    /\ UNCHANGED <<tok, model, is_trained, disk, th, gen, scorer_instance, knowledge_base>>

NextNet ==
    \/ \E seed \in Seeds : NetNew(seed)
    \/ \E i \in NetExamples : NetForward(i)
    \/ \E i \in NetExamples : NetPredict(i)
    \/ \E i \in NetExamples : NetBackward(i)

SpecNet == InitNet /\ [][NextNet]_vars

\* The output stage on its own: the output unit's pre-activation z goes
\* through sigmoid and through the result dictionary of score
MaxPreactivation == 9
Preactivations ==
    ((-MaxPreactivation * FP) .. (MaxPreactivation * FP))
        \cup { -SigmoidClip * FP - 1, -SigmoidClip * FP, SigmoidClip * FP, SigmoidClip * FP + 1 }

InitOut ==
    /\ InitScorer
    /\ InitRest
    /\ th = <<>>

\* one output is computed and returned
ScoreOutput(z) ==
    /\ ~hist.classified
    /\ hist' = [hist EXCEPT !.classified = TRUE, !.lastZ = z,
                            !.lastScore = SigmoidScalar(z),
                            !.lastResult = ScoreResult(SigmoidScalar(z))]
    /\ UNCHANGED <<tok, model, is_trained, nets, disk, th, gen, scorer_instance, knowledge_base>>

NextOut == ~hist.classified /\ \E z \in Preactivations : ScoreOutput(z)

SpecOut == InitOut /\ [][NextOut]_vars

(***************************************************************************)
(* Properties                                                              *)
(***************************************************************************)
\* The tokenizer and the network that a snapshot or a directory describes
TokOf(word_to_idx, vocab_size) ==
    [NewTokenizer(vocab_size) EXCEPT !.word_to_idx = word_to_idx]

NetOf(p) ==
    [input_size |-> Rows(p[1]),
     W1 |-> p[1], b1 |-> p[2], W2 |-> p[3], b2 |-> p[4], W3 |-> p[5], b3 |-> p[6],
     cache |-> EmptyCache]

\* what score(d) returns when nothing else runs: transform, predict, result
ScoreAlone(tk, net, d) ==
    LET r == Transform(tk, d)
    IN IF ~r.ok THEN [status |-> "error", op |-> "score", val |-> <<>>]
       ELSE LET f == Forward(net, <<r.v>>)
            IN IF ~f.ok THEN [status |-> "error", op |-> "score", val |-> <<>>]
               ELSE [status |-> "ok", op |-> "score",
                     val |-> <<ScoreResult(f.out[1][1])>>]

SnapScore(s, d) ==
    IF s.params = <<>> THEN [status |-> "error", op |-> "score", val |-> <<>>]
    ELSE ScoreAlone(TokOf(s.word_to_idx, s.vocab_size), NetOf(s.params), d)

\* two snapshots of the scorer show the same vocabulary, model and state
SameScorer(a, b) ==
    /\ AsMap(a.word_to_idx) = AsMap(b.word_to_idx)
    /\ a.vocab_size = b.vocab_size
    /\ a.params = b.params
    /\ a.is_trained = b.is_trained

Returned(t, op) == th[t].pc = "done" /\ th[t].ret.op = op

\* C10: after fit(c1); fit(c2) on one tokenizer the token-to-slot mapping is
\* the one fit(c2) gives on a fresh tokenizer of the same vocab_size.
C10_FitReplacesVocabulary ==
    hist.nfits >= 1 =>
        AsMap(tok.word_to_idx) =
            AsMap(Fit(NewTokenizer(tok.vocab_size), hist.lastCorpus).word_to_idx)

\* C7: Trained is terminal.  No step of train, score, score_batch, save or
\* load, failing or not, takes one scorer instance from Trained to Untrained.
C7_TrainedIsTerminal == [][(is_trained /\ gen' = gen) => is_trained']_vars

\* a load() on a Trained scorer has failed, after replacing part of its state
C7_Witness ==
    /\ is_trained
    /\ \E t \in DOMAIN th :
          /\ Returned(t, "load") /\ th[t].ret.status = "error"
          /\ th[t].entry.is_trained
          /\ ~SameScorer(Snap, th[t].entry)

\* C3: a load() that fails leaves the vocabulary mapping, vocab_size, model
\* and trained state as they were on entry.
C3_FailedLoadRollsBack ==
    \A t \in DOMAIN th :
        (Returned(t, "load") /\ th[t].ret.status = "error")
            => SameScorer(Snap, th[t].entry)

\* the directory holds a readable model whose W1 has not vocab_size + 8 rows
ShapeMismatch(d) ==
    /\ d.tok.kind = "json" /\ d.tok.keys = {"word_to_idx", "vocab_size"}
    /\ d.wts.kind = "npz" /\ d.wts.names = Range(ParamNames)
    /\ Rows(d.wts.W1) # d.tok.vocab_size + 8

\* C6: load() of a model whose weight shapes do not match the vocabulary's
\* input width fails, and the scorer is not Trained with those tensors.
C6_ShapeMismatchFailsAtLoad ==
    \A t \in DOMAIN th :
        (Returned(t, "load") /\ ShapeMismatch(disk))
            => /\ th[t].ret.status = "error"
               /\ ~(is_trained /\ model # 0 /\ NpzOf(nets[model]) = disk.wts)

\* C9: a train() that returns leaves the vocabulary and the network that
\* train() leaves on a freshly constructed scorer given the same initial
\* weights, whatever the scorer held before the call.
C9_TrainFromScratch ==
    \A t \in DOMAIN th :
        (Returned(t, "train") /\ th[t].ret.status = "ok")
            => /\ AsMap(tok.word_to_idx) = AsMap(FreshTrain(th[t].seed).tok.word_to_idx)
               /\ tok.vocab_size = VocabSize
               /\ ModelParams = Params(FreshTrain(th[t].seed).net)

\* C5: a load() from the directory that a save() of a Trained scorer wrote
\* succeeds and leaves the vocabulary mapping, vocab_size and the six
\* parameter tensors of the time of the save, on the same scorer or on a
\* new one, so that score gives every description what it gave then.
C5_SaveLoadRoundTrip ==
    \A t \in DOMAIN th :
        (Returned(t, "load") /\ hist.diskClean /\ hist.saved.is_trained)
            => /\ th[t].ret.status = "ok"
               /\ SameScorer(Snap, hist.saved)
               /\ \A d \in Descriptions :
                     ScoreAlone(tok, nets[model], d) = SnapScore(hist.saved, d)

\* the load replaced a vocabulary and a model other than the saved ones
C5_Witness ==
    \E t \in DOMAIN th :
        /\ Returned(t, "load") /\ hist.diskClean /\ hist.saved.is_trained
        /\ th[t].ret.status = "ok"
        /\ th[t].entry.params # hist.saved.params
        /\ AsMap(th[t].entry.word_to_idx) # AsMap(hist.saved.word_to_idx)
        /\ \E d \in Descriptions : SnapScore(hist.saved, d).status = "ok"

PredictPcs == {"sc_predict", "sc_layer2", "sc_layer3", "sc_return"}

\* C8: with one caller at a time, score() runs train() exactly when the
\* scorer is Untrained on entry and predicts only once the scorer is
\* Trained; one scorer is trained by score() at most once;
\* a successful load() leaves it Trained without any training.
C8_LazyExactlyOnce ==
    /\ hist.scoreTrains <= 1
    /\ \A t \in DOMAIN th :
          /\ (th[t].op = "score" /\ th[t].pc # "sc_check")
                => th[t].trains = IF th[t].entry.is_trained THEN 0 ELSE 1
          /\ th[t].op = "score_batch"
                => /\ th[t].trains <= 1
                   /\ th[t].entry.is_trained => th[t].trains = 0
          /\ (th[t].op \in {"score", "score_batch"} /\ th[t].pc \in PredictPcs)
                => is_trained /\ model # 0
          /\ (Returned(t, "load") /\ th[t].ret.status = "ok")
                => is_trained /\ th[t].trains = 0
          /\ (is_trained /\ th[t].op \in {"score", "score_batch"} /\ th[t].pc = "tr_fit")
                => FALSE

\* the first score() on a new scorer has trained once and returned a result
C8_Witness ==
    \E t \in DOMAIN th :
        /\ Returned(t, "score") /\ th[t].ret.status = "ok"
        /\ ~th[t].entry.is_trained /\ th[t].entry.params = <<>>
        /\ th[t].trains = 1 /\ hist.scoreTrains = 1
        /\ is_trained

\* the callers that arrived at score() while the scorer was Untrained and
\* have started train()
LazyTrainers ==
    {t \in DOMAIN th : th[t].op = "score" /\ ~th[t].entry.is_trained /\ th[t].trains > 0}

\* C1: of the callers of score() that arrive while the scorer is Untrained
\* at most one starts training, and none runs predict on a network whose
\* training has not completed.
C1_SingleFlightTraining ==
    hist.loadCalls = 0 =>
        /\ Cardinality(LazyTrainers) <= 1
        /\ hist.scoreTrains <= 1
        /\ ~hist.predictUnready

\* C2: a score() call on a Trained scorer that no train() or load() writes
\* to while it runs returns what it returns alone on its description,
\* whatever other score() call runs beside it.
C2_ConcurrentScoresIndependent ==
    \A t \in DOMAIN th :
        (Returned(t, "score") /\ th[t].entry.is_trained /\ th[t].dist = {})
            => th[t].ret = ScoreAlone(tok, nets[model], th[t].desc)

\* the scorer that a load() of directory d leaves when it succeeds
LoadedSnap(d) ==
    [word_to_idx |-> d.tok.word_to_idx, vocab_size |-> d.tok.vocab_size,
     params |-> <<d.wts.W1, d.wts.b1, d.wts.W2, d.wts.b2, d.wts.W3, d.wts.b3>>,
     is_trained |-> TRUE]

\* C4: a score() call on a Trained scorer that runs beside one load(), and
\* beside no other writer, returns what it returns alone either on the
\* scorer as it was when the load began or on the scorer the load leaves.
C4_LoadIsAtomicSwap ==
    \A s, u \in DOMAIN th :
        ( /\ s # u
          /\ Returned(s, "score") /\ th[s].entry.is_trained
          /\ th[u].op = "load" /\ th[u].entry.is_trained
          /\ th[s].dist \subseteq {<<"load", u, th[u].calls>>} )
            => th[s].ret \in { SnapScore(th[u].entry, th[s].desc),
                               SnapScore(LoadedSnap(disk), th[s].desc) }

\* The tokens of a corpus, in the order they occur
RECURSIVE CorpusTokens(_)
CorpusTokens(texts) ==
    IF texts = <<>> THEN <<>>
    ELSE CleanText(Head(texts)) \o CorpusTokens(Tail(texts))

Occurrences(toks, w) == Cardinality({i \in DOMAIN toks : toks[i] = w})
FirstOccurrence(toks, w) ==
    CHOOSE i \in DOMAIN toks : toks[i] = w /\ \A j \in DOMAIN toks : toks[j] = w => i <= j
\* v comes before w: more frequent, or as frequent and seen first
Precedes(toks, v, w) ==
    \/ Occurrences(toks, v) > Occurrences(toks, w)
    \/ /\ Occurrences(toks, v) = Occurrences(toks, w)
       /\ FirstOccurrence(toks, v) < FirstOccurrence(toks, w)
SlotOf(toks, w) == Cardinality({v \in Range(toks) : Precedes(toks, v, w)})

\* C11: the first fit on a new tokenizer maps exactly the vocab_size most
\* frequent distinct tokens of the corpus to slots 0, 1, 2, ... in descending
\* order of frequency, equally frequent tokens in order of first occurrence;
\* fitting ["a a b", "b c"] with vocab_size 2 gives a -> 0, b -> 1 and no c.
C11_FitAssignsSlotsByFrequency ==
    hist.nfits = 1 =>
        LET toks == CorpusTokens(hist.lastCorpus)
        IN /\ AsMap(tok.word_to_idx) =
                 { <<w, SlotOf(toks, w)>> : w \in {v \in Range(toks) : SlotOf(toks, v) < tok.vocab_size} }
           /\ Len(tok.word_to_idx) = Cardinality(AsMap(tok.word_to_idx))
           /\ (hist.lastCorpus = << <<"a", " ", "a", " ", "b">>, <<"b", " ", "c">> >>
                /\ tok.vocab_size = 2)
                 => AsMap(tok.word_to_idx) = { << <<"a">>, 0 >>, << <<"b">>, 1 >> }

\* ["a a b", "b c"] has been fitted with vocab_size 2: a and b tie, c is left out
C11_Witness ==
    /\ hist.nfits = 1
    /\ hist.lastCorpus = << <<"a", " ", "a", " ", "b">>, <<"b", " ", "c">> >>
    /\ tok.vocab_size = 2
    /\ DictGet(tok.word_to_idx, <<"a">>, -1) = 0
    /\ DictGet(tok.word_to_idx, <<"b">>, -1) = 1
    /\ ~DictHas(tok.word_to_idx, <<"c">>)
    /\ DictGet(tok.word_counts, <<"a">>, 0) = DictGet(tok.word_counts, <<"b">>, 0)

\* C12: every slot in the token-to-slot mapping lies in [0, vocab_size) and
\* no token has more than one slot, after any fits and transforms.
C12_VocabularyInvariant ==
    /\ \A i \in DOMAIN tok.word_to_idx :
          tok.word_to_idx[i][2] >= 0 /\ tok.word_to_idx[i][2] < tok.vocab_size
    /\ \A i, j \in DOMAIN tok.word_to_idx :
          tok.word_to_idx[i][1] = tok.word_to_idx[j][1] => i = j

\* two fits have filled every slot, the second on a corpus with other words
C12_Witness ==
    /\ hist.nfits = 2
    /\ Len(tok.word_to_idx) > tok.vocab_size
    /\ tok.vocab_size = MaxVocab

\* C13: on a tokenizer that fit calls have left, transform of any text, the
\* empty one and one without alphanumeric characters included, returns
\* without error a vector of length vocab_size + 8.
C13_TransformLength ==
    hist.transformed =>
        /\ hist.lastVec.ok
        /\ Len(hist.lastVec.v) = tok.vocab_size + 8

\* a text of punctuation only has been transformed after two fits
C13_Witness ==
    /\ hist.transformed /\ hist.nfits = 2
    /\ hist.lastText # <<>> /\ CleanText(hist.lastText) = <<>>
    /\ tok.word_to_idx # <<>>
    /\ Len(hist.lastVec.v) = tok.vocab_size + 8

\* the occurrences in a text of the tokens that the mapping sends to slot k
SlotCount(t, words, k) ==
    Cardinality({i \in DOMAIN words :
                    DictHas(t.word_to_idx, words[i]) /\ DictGet(t.word_to_idx, words[i], -1) = k})
VocabularyTokens(t, words) ==
    Cardinality({i \in DOMAIN words : DictHas(t.word_to_idx, words[i])})
BagOfWords == SubSeq(hist.lastVec.v, 1, tok.vocab_size)
NonZero(v) == Cardinality({i \in DOMAIN v : v[i] # 0})

QualityLabels == {"poor", "needs_work", "okay", "good", "excellent"}
FeedbackOf(q) ==
    CASE q = "poor" -> "Needs much more detail."
      [] q = "needs_work" -> "Too brief."
      [] q = "okay" -> "Okay, but could be more specific."
      [] q = "good" -> "Good description with clear intent."
      [] q = "excellent" -> "Excellent!"

\* C15: the unrounded output s gets quality poor for s < 0.35, needs_work
\* for 0.35 <= s < 0.5, okay for 0.5 <= s < 0.65, good for 0.65 <= s < 0.8
\* and excellent for s >= 0.8, and the feedback string of that label.
C15_QualityThresholds ==
    hist.classified =>
        LET s == hist.lastScore * 100
            q == hist.lastResult.quality
        IN /\ q \in QualityLabels
           /\ q = "poor" <=> s < 35 * FP
           /\ q = "needs_work" <=> (35 * FP <= s /\ s < 50 * FP)
           /\ q = "okay" <=> (50 * FP <= s /\ s < 65 * FP)
           /\ q = "good" <=> (65 * FP <= s /\ s < 80 * FP)
           /\ q = "excellent" <=> 80 * FP <= s
           /\ hist.lastResult.feedback = FeedbackOf(q)

\* an output exactly on a boundary has been labelled with the higher bucket
C15_Witness ==
    /\ hist.classified
    /\ hist.lastScore * 100 = 65 * FP
    /\ hist.lastResult.quality = "good"
    /\ hist.lastResult.feedback = "Good description with clear intent."

\* C16: whatever the pre-activation of the output unit, the result of score
\* has score in [0, 1] (in hundredths: 0 .. 100) and percentage in 0 .. 100.
C16_ScoreRange ==
    hist.classified =>
        /\ 0 <= hist.lastScore /\ hist.lastScore <= FP
        /\ hist.lastResult.score \in 0..100
        /\ hist.lastResult.percentage \in 0..100

\* pre-activations beyond the clipping range have been scored
C16_Witness ==
    /\ hist.classified
    /\ hist.lastZ > SigmoidClip * FP
    /\ hist.lastResult.percentage = 100
    /\ hist.lastResult.quality = "excellent"

\* C17: score_batch(ds) on a Trained scorer returns as many results as ds
\* has descriptions, the i-th being what score(ds[i]) returns alone; it
\* raises only if one of them raises alone.
C17_BatchIsElementwise ==
    \A t \in DOMAIN th :
        (Returned(t, "score_batch") /\ th[t].entry.is_trained)
            => LET ds == th[t].batch
                   alone(i) == ScoreAlone(tok, nets[model], ds[i])
               IN /\ th[t].ret.status = "ok" <=> \A i \in DOMAIN ds : alone(i).status = "ok"
                  /\ th[t].ret.status = "ok" =>
                        /\ Len(th[t].ret.val) = Len(ds)
                        /\ \A i \in DOMAIN ds : th[t].ret.val[i] = alone(i).val[1]
                  /\ th[t].trains = 0

\* a batch of two descriptions has been scored with two different results
C17_Witness ==
    \E t \in DOMAIN th :
        /\ Returned(t, "score_batch") /\ th[t].entry.is_trained
        /\ th[t].ret.status = "ok"
        /\ Len(th[t].batch) = 2 /\ Len(th[t].ret.val) = 2
        /\ th[t].ret.val[1] # th[t].ret.val[2]

HasMissingResult(results, n) ==
    \E i \in DOMAIN results :
        /\ results[i].node_id = n.id
        /\ results[i].score = 0 /\ results[i].percentage = 0
        /\ results[i].quality = "missing"

\* C18, as stated: a node whose description is empty or absent is never
\* passed to scorer.score, and it receives the result score 0, percentage 0,
\* quality "missing".
C18_EmptyDescriptionGetsMissing ==
    \A t \in DOMAIN th :
        (Returned(t, "score_descriptions") /\ th[t].ret.status = "ok")
            => \A i \in DOMAIN th[t].nodes :
                  DescriptionOrEmpty(th[t].nodes[i]) = <<>>
                      => /\ <<>> \notin Range(th[t].passed)
                         /\ HasMissingResult(th[t].ret.val, th[t].nodes[i])

\* the results of a request: none for a note, the fixed one for a node
\* without description, the score of the description for the others
RECURSIVE ExpectedResults(_)
ExpectedResults(nodes) ==
    IF nodes = <<>> THEN <<>>
    ELSE LET n == Head(nodes)
             d == DescriptionOrEmpty(n)
         IN IF n.type = "notes" THEN ExpectedResults(Tail(nodes))
            ELSE IF d = <<>>
                 THEN <<NodeResult(n, d, MissingResult)>> \o ExpectedResults(Tail(nodes))
                 ELSE <<NodeResult(n, d, ScoreAlone(tok, nets[model], d).val[1])>>
                          \o ExpectedResults(Tail(nodes))

RECURSIVE ExpectedPassed(_)
ExpectedPassed(nodes) ==
    IF nodes = <<>> THEN <<>>
    ELSE (IF Head(nodes).type # "notes" /\ DescriptionOrEmpty(Head(nodes)) # <<>>
          THEN <<DescriptionOrEmpty(Head(nodes))>> ELSE <<>>)
         \o ExpectedPassed(Tail(nodes))

\* C18, amended: no empty or absent description is ever passed to
\* scorer.score; a node of a type other than notes whose description is
\* empty or absent receives the result score 0, percentage 0, quality
\* "missing"; a node of type notes is skipped and receives no result.
C18_EmptyDescriptionNotScored ==
    \A t \in DOMAIN th :
        /\ <<>> \notin Range(th[t].passed)
        /\ (th[t].op = "score_descriptions" /\ th[t].pc \in PredictPcs \cup {"sc_check", "sc_transform"})
              => th[t].desc # <<>>
        /\ (Returned(t, "score_descriptions") /\ th[t].ret.status = "ok")
              => /\ th[t].ret.val = ExpectedResults(th[t].nodes)
                 /\ th[t].passed = ExpectedPassed(th[t].nodes)
                 /\ \A i \in DOMAIN th[t].nodes :
                       (th[t].nodes[i].type # "notes" /\ DescriptionOrEmpty(th[t].nodes[i]) = <<>>)
                           => HasMissingResult(th[t].ret.val, th[t].nodes[i])
                 /\ \A i \in DOMAIN th[t].nodes :
                       th[t].nodes[i].type = "notes"
                           => \A j \in DOMAIN th[t].ret.val :
                                 th[t].ret.val[j].node_id # th[t].nodes[i].id

\* a request with a note without text and a node without description has
\* been answered, after one with a description that was scored
C18_Witness ==
    \E t \in DOMAIN th :
        /\ Returned(t, "score_descriptions") /\ th[t].ret.status = "ok"
        /\ Len(th[t].nodes) = 2
        /\ th[t].nodes[1].type = "notes" /\ DescriptionOrEmpty(th[t].nodes[1]) = <<>>
        /\ th[t].nodes[2].type = "process" /\ ~th[t].nodes[2].has_description
        /\ Len(th[t].ret.val) = 1 /\ th[t].ret.val[1].quality = "missing"
        /\ th[t].passed = <<>>
        /\ is_trained

\* C20: a score() or score_batch() call on a Trained scorer, returning a
\* result or raising, leaves the six parameter tensors, the vocabulary
\* mapping, vocab_size and the Trained flag as they were on entry, at every
\* step of the call.
C20_ScoringIsReadOnly ==
    \A t \in DOMAIN th :
        (th[t].op \in {"score", "score_batch"} /\ th[t].entry.is_trained)
            => /\ SameScorer(Snap, th[t].entry)
               /\ tok.word_to_idx = th[t].entry.word_to_idx

\* a score() and a score_batch() on a Trained scorer have returned results
C20_Witness ==
    \E t \in DOMAIN th :
        /\ Returned(t, "score_batch") /\ th[t].ret.status = "ok"
        /\ th[t].entry.is_trained /\ th[t].entry.params # <<>>
        /\ Len(th[t].ret.val) = 2
        /\ nets[model].cache # EmptyCache

\* C19: predict leaves every field of the network unchanged, the cached
\* activations included: after any calls of forward, predict and backward
\* the network is the one that the same calls without the predicts leave,
\* so that forward(X); predict(X'); backward(X, y) updates the parameters
\* as forward(X); backward(X, y) does.
C19_PredictRetainsNoState ==
    hist.netops # <<>> =>
        /\ nets[1].cache = hist.shadow.cache
        /\ Params(nets[1]) = Params(hist.shadow)

C22_TrainRunsEpochsIterations ==
    \A t \in DOMAIN th :
        (Returned(t, "net_train") /\ th[t].ret.status = "ok") =>
            LET ops == hist.netops
                X == TrainX(ops[1][2])
                y == TrainY(ops[1][2])
                epochs == ops[1][3]
                losses == th[t].ret.val
                Before(k) == NetTrain(hist.shadow, X, y, k, LearningRate).net
            IN /\ Len(losses) = epochs
               /\ Len(ops) = 1 + 2 * epochs
               /\ \A k \in 0..(epochs - 1) :
                     /\ ops[2 * k + 2][1] = "forward" /\ ops[2 * k + 2][2] = k
                     /\ ops[2 * k + 2][3] = Forward(Before(k), X).out
                     /\ ops[2 * k + 3] = <<"backward", k>>
                     /\ losses[k + 1] = ComputeLoss(ops[2 * k + 2][3], y)
               /\ Params(nets[1]) = Params(Before(epochs))

C22_Witness ==
    \E t \in DOMAIN th :
        /\ Returned(t, "net_train") /\ th[t].ret.status = "ok"
        /\ hist.netops[1][3] = Epochs + 1
        /\ Len(th[t].ret.val) = Epochs + 1
        /\ th[t].ret.val[1] # th[t].ret.val[2]
        /\ Params(nets[1]) # Params(hist.shadow)

\* C23: backward is a simultaneous gradient-descent step: when the first
\* tensor is about to be updated all gradients have been computed and no
\* parameter has changed since entry, and at return the six tensors are the
\* entry values minus learning_rate times the gradients taken from the entry
\* parameters and the cached activations.
C23_BackwardIsSimultaneous ==
    \A t \in DOMAIN th :
        LET i == hist.netops[1][2]
            after == Backward(hist.shadow, TrainX(i), TrainY(i), LearningRate)
        IN /\ th[t].pc = "bw_upd3" =>
                /\ Params(nets[1]) = Params(hist.shadow)
                /\ Step(hist.shadow.W2, th[t].grads.dW2, LearningRate) = after.W2
                /\ Step(hist.shadow.W1, th[t].grads.dW1, LearningRate) = after.W1
           /\ (Returned(t, "backward") /\ th[t].ret.status = "ok") =>
                /\ Params(nets[1]) = Params(after)
                /\ nets[1].cache = hist.shadow.cache

\* a backward has returned that changed W1, W2 and W3
C23_Witness ==
    \E t \in DOMAIN th :
        /\ Returned(t, "backward") /\ th[t].ret.status = "ok"
        /\ nets[1].W3 # hist.shadow.W3
        /\ nets[1].W2 # hist.shadow.W2
        /\ nets[1].W1 # hist.shadow.W1

\* C24, as stated: each bag-of-words entry of transform(text) is its slot's
\* occurrence count divided by the number of tokens of the text, the count
\* the word_count feature is made from, and the slice is all zero when the
\* text has no token.
C24_BagDividesByTokenCount ==
    hist.transformed =>
        LET words == CleanText(hist.lastText)
        IN /\ hist.lastVec.ok
           /\ hist.lastVec.v[tok.vocab_size + 2] = (Len(words) * FP) \div WordCountScale
           /\ \A k \in DOMAIN BagOfWords :
                 BagOfWords[k] = IF Len(words) = 0 THEN 0
                                 ELSE (SlotCount(tok, words, k - 1) * FP) \div Len(words)

\* C24, amended: each bag-of-words entry of transform(text) is its slot's
\* occurrence count divided by the number of tokens of the text that are in
\* the vocabulary, which is the token count of the word_count feature only
\* when every token of the text is in the vocabulary; the slice is all zero
\* when no token of the text is in the vocabulary.
C24_BagDividesByVocabularyTokenCount ==
    hist.transformed =>
        LET words == CleanText(hist.lastText)
            inVocab == VocabularyTokens(tok, words)
        IN /\ hist.lastVec.ok
           /\ hist.lastVec.v[tok.vocab_size + 2] = (Len(words) * FP) \div WordCountScale
           /\ inVocab <= Len(words)
           /\ \A k \in DOMAIN BagOfWords :
                 BagOfWords[k] = IF inVocab = 0 THEN 0
                                 ELSE (SlotCount(tok, words, k - 1) * FP) \div inVocab

\* a text has been transformed of which one token is in the vocabulary and
\* another is not
C24_Witness ==
    /\ hist.transformed
    /\ VocabularyTokens(tok, CleanText(hist.lastText)) > 0
    /\ VocabularyTokens(tok, CleanText(hist.lastText)) < Len(CleanText(hist.lastText))
    /\ NonZero(BagOfWords) > 0

\* C25: get_scorer is a lazily initialised singleton: once a call has
\* returned to its caller the instance exists and is in state Trained with a
\* model, and only the first call in the process runs a training, also when
\* the training of an earlier call raised an error.
C25_GetScorerReturnsTrainedSingleton ==
    \A t \in DOMAIN th :
        /\ th[t].pc = "api_next" =>
              /\ scorer_instance = "DescriptionScorer"
              /\ is_trained
              /\ model # 0
        /\ th[t].calls > 1 => th[t].trains = 0

\* C26: whenever is_trained is true the scorer's model is not None and holds
\* the parameters of a completed training run or a completed load, also
\* during a repeated call of train() and after a load() that failed.
C26_TrainedModelIsComplete ==
    is_trained => (model # 0 /\ hist.ready[model])

\* C27: after any fits word_to_idx and idx_to_word are inverse to each other,
\* no two tokens have the same slot, and the vocabulary has at most
\* vocab_size tokens.
C27_VocabularyMapsAreInverse ==
    /\ \A i \in DOMAIN tok.word_to_idx :
          DictGet(tok.idx_to_word, tok.word_to_idx[i][2], <<>>) = tok.word_to_idx[i][1]
    /\ \A i \in DOMAIN tok.idx_to_word :
          DictGet(tok.word_to_idx, tok.idx_to_word[i][2], -1) = tok.idx_to_word[i][1]
    /\ \A i, j \in DOMAIN tok.word_to_idx :
          tok.word_to_idx[i][2] = tok.word_to_idx[j][2] => i = j
    /\ Len(tok.word_to_idx) <= tok.vocab_size

WithDocId(docs, id) == {i \in DOMAIN docs : docs[i].id = id}
RECURSIVE WithoutDocId(_, _)
WithoutDocId(docs, id) ==
    IF docs = <<>> THEN <<>>
    ELSE IF Head(docs).id = id THEN WithoutDocId(Tail(docs), id)
    ELSE <<Head(docs)>> \o WithoutDocId(Tail(docs), id)

\* C29: remove_document(id) removes only custom documents: after any adds
\* and removes KNOWLEDGE_DOCUMENTS is the list the module defines, the custom
\* documents with another id are kept, and the call returns True exactly
\* when a custom document with the id was present before the call and none
\* is present after it.
C29_RemoveOnlyCustomDocuments ==
    /\ KNOWLEDGE_DOCUMENTS = BuiltInDocuments
    /\ hist.kb.op = "remove" =>
          /\ hist.kb.removed <=> ( /\ WithDocId(hist.kb.before, hist.kb.arg) # {}
                                   /\ WithDocId(CUSTOM_DOCUMENTS, hist.kb.arg) = {} )
          /\ WithDocId(CUSTOM_DOCUMENTS, hist.kb.arg) = {}
          /\ CUSTOM_DOCUMENTS = WithoutDocId(hist.kb.before, hist.kb.arg)

\* a remove has returned True and left a custom document with another id;
\* and the id of a built-in document has been passed
C29_Witness ==
    /\ hist.kb.op = "remove"
    /\ hist.kb.removed
    /\ Len(CUSTOM_DOCUMENTS) >= 1
    /\ Len(hist.kb.before) = MaxDocs

\* C30: after any adds and removes no two custom documents have the same
\* URL; an add is refused exactly when the URL is already stored or the fetch
\* fails, and then it returns success = False and leaves the custom documents
\* as they were.
C30_NoDuplicateUrls ==
    /\ \A i, j \in DOMAIN CUSTOM_DOCUMENTS :
          CUSTOM_DOCUMENTS[i].url = CUSTOM_DOCUMENTS[j].url => i = j
    /\ hist.kb.op = "add" =>
          LET duplicate == \E i \in DOMAIN hist.kb.before :
                              hist.kb.before[i].url = hist.kb.arg
          IN /\ (duplicate \/ ~hist.kb.fetched) <=> ~hist.kb.added.success
             /\ ~hist.kb.added.success => CUSTOM_DOCUMENTS = hist.kb.before
             /\ hist.kb.added.success =>
                   /\ Len(CUSTOM_DOCUMENTS) = Len(hist.kb.before) + 1
                   /\ CUSTOM_DOCUMENTS[Len(CUSTOM_DOCUMENTS)].url = hist.kb.arg

\* an add of a stored URL has been refused, with two documents stored
C30_Witness ==
    /\ hist.kb.op = "add"
    /\ hist.kb.added.error = "URL already in knowledge base"
    /\ ~hist.kb.added.success
    /\ Len(CUSTOM_DOCUMENTS) = 2

====
